---- MODULE Spec2Model ----
(***************************************************************************)
(* Model of kajiya's pipeline cache (kajiya-backend/src/pipeline_cache.rs) *)
(* and temporal render graph (kajiya-rg/src/temporal.rs).                  *)
(***************************************************************************)
EXTENDS Integers, Sequences, FiniteSets, TLC

(***************************************************************************)
(* Bounds of the model.                                                    *)
(***************************************************************************)
\* Total number of pipeline entries registered over the three kinds.
MaxEntries == 2
\* Total number of pipeline objects the driver is asked to construct.
MaxObjs == 2
\* Total number of images and buffers the device is asked to create.
MaxResources == 2
\* Number of shader groups of a ray-tracing pipeline whose worker is run alone.
MaxGroups == 2

\* Option<T>: None, or Some(x)
None == <<>>
Some(x) == <<x>>

(***************************************************************************)
(* Shader descriptions.                                                    *)
(***************************************************************************)
\* ShaderSource::Rust { entry } | ShaderSource::Hlsl { path }
SrcA == [lang |-> "Hlsl", name |-> "a"]
SrcB == [lang |-> "Rust", name |-> "b"]
Sources == {SrcA, SrcB}

\* The fields of a pipeline description other than its shaders.
Opts == {"o1", "o2"}

\* ComputePipelineDesc: the shader source and the remaining fields.
ComputeDescs == [source : Sources, opts : Opts]

\* PipelineShaderDesc: one stage of a raster or ray-tracing pipeline.
Stage(s) == [source |-> s]
\* An Option<PipelineShaderDesc> that is None.
NoStage == [source |-> [lang |-> "-", name |-> "-"]]

\* RasterPipelineShadersDesc { vertex, pixel }
RasterShaders ==
    { [vertex |-> Stage(SrcA), pixel |-> Stage(SrcA)],
      [vertex |-> Stage(SrcA), pixel |-> Stage(SrcB)] }

\* RasterPipelineDesc / RayTracingPipelineDesc: render pass, face culling, ...
PipelineDescs == [opts : Opts]

\* ShaderGroupDesc::RayGen | Miss | HitGroup { closest_hit, intersection }
RayGen(s) ==
    [tag |-> "RayGen", g |-> Stage(s), closest_hit |-> NoStage, intersection |-> NoStage]
Miss(s) ==
    [tag |-> "Miss", g |-> Stage(s), closest_hit |-> NoStage, intersection |-> NoStage]
HitGroup(c, i) ==
    [tag |-> "HitGroup", g |-> NoStage, closest_hit |-> c, intersection |-> i]

\* Vec<ShaderGroupDesc>
RtShaders ==
    { <<RayGen(SrcA), Miss(SrcA)>>,
      <<RayGen(SrcA), HitGroup(Stage(SrcB), NoStage)>> }

(***************************************************************************)
(* State.                                                                  *)
(***************************************************************************)
VARIABLES
    compute_entries,            \* HashMap<ComputePipelineHandle, ComputePipelineCacheEntry>
    raster_entries,             \* HashMap<RasterPipelineHandle, RasterPipelineCacheEntry>
    rt_entries,                 \* HashMap<RtPipelineHandle, RtPipelineCacheEntry>
    compute_shader_to_handle,   \* HashMap<ShaderSource, ComputePipelineHandle>
    raster_shaders_to_handle,   \* HashMap<RasterPipelineShadersDesc, RasterPipelineHandle>
    rt_shaders_to_handle,       \* HashMap<Vec<ShaderGroupDesc>, RtPipelineHandle>
    srcOk,                      \* per shader source name: does it compile at present
    objs,                       \* pipeline objects constructed by the driver so far
    stage,                      \* the type that holds the ledger: TemporalRenderGraphState,
                                \* TemporalRenderGraph or ExportedTemporalRenderGraphState
    temporal_state,             \* TemporalRenderGraphState { images, buffers }
    old_state,                  \* a second TemporalRenderGraphState the caller holds, if any
    rg,                         \* the RenderGraph of the TemporalRenderGraph
    created,                    \* images and buffers created by the device so far
    pass,                       \* the parallel_compile_shaders call in progress: where
                                \* it is, and the state of each task it spawned
    panicked,                   \* the process has aborted on a panic
    last                        \* the last call: [op, arg, ret]

pcVars == <<compute_entries, raster_entries, rt_entries, compute_shader_to_handle,
            raster_shaders_to_handle, rt_shaders_to_handle, srcOk, objs>>

trgVars == <<stage, temporal_state, old_state, rg, created>>

vars == <<pcVars, trgVars, pass, panicked, last>>

\* The empty HashMap.
EmptyMap == [x \in {} |-> None]

\* HashMap::insert
MapInsert(m, k, v) == [x \in DOMAIN m \cup {k} |-> IF x = k THEN v ELSE m[x]]

\* HashMap::len
MapLen(m) == Cardinality(DOMAIN m)

\* A lookup that never finds the key.
ContainsKeyNever(m, k) == FALSE

\* HashMap::get(..).is_some() / Entry::Occupied
ContainsKey(m, k) == k \in DOMAIN m

NumEntries == MapLen(compute_entries) + MapLen(raster_entries) + MapLen(rt_entries)

(***************************************************************************)
(* Compilation units.                                                      *)
(***************************************************************************)
\* CompileRustShader { entry }.into_lazy() / CompileShader { path, profile }.into_lazy()
CompileTask(source, profile) ==
    IF source.lang = "Rust"
    THEN [worker |-> "CompileRustShader", name |-> source.name, profile |-> "-"]
    ELSE [worker |-> "CompileShader", name |-> source.name, profile |-> profile]

\* A Lazy<..> handle: the work it stands for and turbosloth's staleness flag.
Lazy(work) == [work |-> work, stale |-> FALSE]

\* A registration that gives every new entry the first handle.
NextHandleFirst(entries) == 0

\* The handle register_* gives a new entry: the number of entries of its kind.
NextHandle(entries) == MapLen(entries)

\* The key register_compute looks up in compute_shader_to_handle.
ComputeKey(desc) == desc.source

\* PipelineCache::new
InitPipelineCache ==
    /\ compute_entries = EmptyMap
    /\ raster_entries = EmptyMap
    /\ rt_entries = EmptyMap
    /\ compute_shader_to_handle = EmptyMap
    /\ raster_shaders_to_handle = EmptyMap
    /\ rt_shaders_to_handle = EmptyMap
    /\ objs = 0

(***************************************************************************)
(* register_* and get_*                                                    *)
(***************************************************************************)
\* PipelineCache::register_compute
RegisterCompute(desc) ==
    /\ ~panicked
    /\ IF ContainsKey(compute_shader_to_handle, ComputeKey(desc))
       THEN /\ last' = [op |-> "register_compute", arg |-> desc,
                        ret |-> compute_shader_to_handle[ComputeKey(desc)]]
            /\ UNCHANGED <<pcVars, panicked>>
       ELSE LET handle == NextHandle(compute_entries)
                compile_task == Lazy(CompileTask(desc.source, "cs"))
            IN  /\ NumEntries < MaxEntries
                /\ compute_entries' = MapInsert(compute_entries, handle,
                        [lazy_handle |-> compile_task, desc |-> desc, pipeline |-> None])
                /\ compute_shader_to_handle' =
                        MapInsert(compute_shader_to_handle, ComputeKey(desc), handle)
                /\ last' = [op |-> "register_compute", arg |-> desc, ret |-> handle]
                /\ UNCHANGED <<raster_entries, rt_entries, raster_shaders_to_handle,
                               rt_shaders_to_handle, srcOk, objs, panicked>>

\* PipelineCache::register_raster
RegisterRaster(shaders, desc) ==
    /\ ~panicked
    /\ IF ContainsKey(raster_shaders_to_handle, shaders)
       THEN /\ last' = [op |-> "register_raster", arg |-> <<shaders, desc>>,
                        ret |-> raster_shaders_to_handle[shaders]]
            /\ UNCHANGED <<pcVars, panicked>>
       ELSE LET handle == NextHandle(raster_entries)
            IN  /\ NumEntries < MaxEntries
                /\ raster_shaders_to_handle' =
                        MapInsert(raster_shaders_to_handle, shaders, handle)
                /\ raster_entries' = MapInsert(raster_entries, handle,
                        [lazy_handle |-> Lazy(shaders), desc |-> desc, pipeline |-> None])
                /\ last' = [op |-> "register_raster", arg |-> <<shaders, desc>>,
                            ret |-> handle]
                /\ UNCHANGED <<compute_entries, rt_entries, compute_shader_to_handle,
                               rt_shaders_to_handle, srcOk, objs, panicked>>

\* PipelineCache::register_ray_tracing
RegisterRayTracing(shaders, desc) ==
    /\ ~panicked
    /\ IF ContainsKey(rt_shaders_to_handle, shaders)
       THEN /\ last' = [op |-> "register_ray_tracing", arg |-> <<shaders, desc>>,
                        ret |-> rt_shaders_to_handle[shaders]]
            /\ UNCHANGED <<pcVars, panicked>>
       ELSE LET handle == NextHandle(rt_entries)
            IN  /\ NumEntries < MaxEntries
                /\ rt_shaders_to_handle' = MapInsert(rt_shaders_to_handle, shaders, handle)
                /\ rt_entries' = MapInsert(rt_entries, handle,
                        [lazy_handle |-> Lazy(shaders), desc |-> desc, pipeline |-> None])
                /\ last' = [op |-> "register_ray_tracing", arg |-> <<shaders, desc>>,
                            ret |-> handle]
                /\ UNCHANGED <<compute_entries, raster_entries, compute_shader_to_handle,
                               raster_shaders_to_handle, srcOk, objs, panicked>>

\* An unwrap that hands the None on instead of panicking.
UnwrapOrNull(opt) == [panic |-> FALSE, value |-> opt]

\* Option::unwrap on the entry's pipeline: a panic when it is None.
Unwrap(opt) == [panic |-> opt = None, value |-> opt]

\* PipelineCache::get_compute
GetCompute(handle) ==
    /\ ~panicked
    /\ LET ret == Unwrap(compute_entries[handle].pipeline)
       IN  /\ last' = [op |-> "get_compute", arg |-> handle, ret |-> ret]
           /\ panicked' = ret.panic
    /\ UNCHANGED <<compute_entries, raster_entries, rt_entries, compute_shader_to_handle,
                   raster_shaders_to_handle, rt_shaders_to_handle, srcOk, objs>>

\* PipelineCache::get_raster
GetRaster(handle) ==
    /\ ~panicked
    /\ LET ret == Unwrap(raster_entries[handle].pipeline)
       IN  /\ last' = [op |-> "get_raster", arg |-> handle, ret |-> ret]
           /\ panicked' = ret.panic
    /\ UNCHANGED <<compute_entries, raster_entries, rt_entries, compute_shader_to_handle,
                   raster_shaders_to_handle, rt_shaders_to_handle, srcOk, objs>>

\* PipelineCache::get_ray_tracing
GetRayTracing(handle) ==
    /\ ~panicked
    /\ LET ret == Unwrap(rt_entries[handle].pipeline)
       IN  /\ last' = [op |-> "get_ray_tracing", arg |-> handle, ret |-> ret]
           /\ panicked' = ret.panic
    /\ UNCHANGED <<compute_entries, raster_entries, rt_entries, compute_shader_to_handle,
                   raster_shaders_to_handle, rt_shaders_to_handle, srcOk, objs>>

(***************************************************************************)
(* Evaluation of the compilation units.                                    *)
(***************************************************************************)
\* anyhow::Result: Ok(val) or Err.
Ok(val) == [ok |-> TRUE, val |-> <<val>>]
Err == [ok |-> FALSE, val |-> <<>>]

\* The compile task of one shader, evaluated: the SPIR-V or an error.
EvalCompileTask(task) == IF srcOk[task.name] THEN Ok([spirv |-> task]) ELSE Err

\* compile(desc, profile, ctx)
Compile(desc, profile) ==
    LET compiled == EvalCompileTask(CompileTask(desc.source, profile))
    IN  IF ~compiled.ok THEN Err
        ELSE Ok([desc |-> desc, code |-> compiled.val[1].spirv])

\* LazyWorker for RasterPipelineShadersDesc: run
RasterRun(shaders) ==
    LET vertex == Compile(shaders.vertex, "vs")
        pixel == Compile(shaders.pixel, "ps")
    IN  IF ~vertex.ok THEN Err
        ELSE IF ~pixel.ok THEN Err
        ELSE Ok([vertex |-> vertex.val[1], pixel |-> pixel.val[1]])

\* Some(compile(g, "lib", &ctx).await?) or None, of a hit group's optional stage.
CompileOption(shader) == IF shader = NoStage THEN Ok(NoStage) ELSE Compile(shader, "lib")

\* One ShaderGroupDesc of the ray-tracing worker's loop.
RtGroup(g) ==
    IF g.tag \in {"RayGen", "Miss"}
    THEN LET c == Compile(g.g, "lib")
         IN  IF ~c.ok THEN Err ELSE Ok([tag |-> g.tag, shader |-> c.val[1]])
    ELSE LET ch == CompileOption(g.closest_hit)
             is == CompileOption(g.intersection)
         IN  IF ~ch.ok THEN Err
             ELSE IF ~is.ok THEN Err
             ELSE Ok([tag |-> "HitGroup", cloest_hit |-> ch.val[1],
                      intersection |-> is.val[1]])

\* LazyWorker for RayTracingPipelineShadersDesc: run
RECURSIVE RtRun(_)
RtRun(groups) ==
    IF groups = <<>> THEN Ok(<<>>)
    ELSE LET head == RtGroup(Head(groups))
         IN  IF ~head.ok THEN Err
             ELSE LET rest == RtRun(Tail(groups))
                  IN  IF ~rest.ok THEN Err ELSE Ok(<<head.val[1]>> \o rest.val[1])

\* The names of the shader sources a stage list reads.
RasterNames(shaders) == {shaders.vertex.source.name, shaders.pixel.source.name}

RtNames(groups) ==
    UNION { {s.source.name : s \in {groups[i].g, groups[i].closest_hit,
                                     groups[i].intersection} \ {NoStage}}
            : i \in DOMAIN groups }

(***************************************************************************)
(* prepare_frame                                                           *)
(***************************************************************************)
\* A staleness query that never reports a change.
IsStaleNever(lazy_handle) == FALSE

\* Lazy::is_stale
IsStale(lazy_handle) == lazy_handle.stale

\* An invalidation that clears every pipeline, stale or not.
InvalidateAll(entries) == [h \in DOMAIN entries |-> [entries[h] EXCEPT !.pipeline = None]]

\* One loop of invalidate_stale_pipelines.
InvalidateStale(entries) ==
    [h \in DOMAIN entries |->
        IF entries[h].pipeline # None /\ IsStale(entries[h].lazy_handle)
        THEN [entries[h] EXCEPT !.pipeline = None]
        ELSE entries[h]]

\* A task filter that leaves out the entries whose unit reports stale.
PendingHandlesSkipStale(entries) ==
    {h \in DOMAIN entries : entries[h].pipeline = None /\ ~entries[h].lazy_handle.stale}

\* The entries parallel_compile_shaders prepares a build task for.
PendingHandles(entries) == {h \in DOMAIN entries : entries[h].pipeline = None}

\* A join that drops the errors of the tasks.
JoinIgnoringErrors(outputs) == "Ok"

\* futures::future::try_join_all over the spawned tasks: `outputs` holds, for
\* each task, whether it returned Ok.
TryJoinAll(outputs) == IF \E o \in outputs : ~o THEN "Err" ELSE "Ok"

\* A build loop that stops one entry short.
BuildPipelinesButLast(entries, built, base) ==
    [h \in DOMAIN entries |->
        IF h \in built /\ \E x \in built : x > h
        THEN [entries[h] EXCEPT
                !.pipeline = Some(base + Cardinality({x \in built : x < h}) + 1),
                !.lazy_handle.stale = FALSE]
        ELSE entries[h]]

\* The loop "Build pipelines from all compiled shaders" for the entries in
\* `built`: the driver's objects are numbered from `base` on.
BuildPipelines(entries, built, base) ==
    [h \in DOMAIN entries |->
        IF h \in built
        THEN [entries[h] EXCEPT
                !.pipeline = Some(base + Cardinality({x \in built : x < h}) + 1),
                !.lazy_handle.stale = FALSE]
        ELSE entries[h]]

\* PipelineCache::prepare_frame: invalidate_stale_pipelines, then
\* parallel_compile_shaders.
PrepareFrame ==
    LET ce == InvalidateStale(compute_entries)
        re == InvalidateStale(raster_entries)
        te == InvalidateStale(rt_entries)
        pc == PendingHandles(ce)
        pr == PendingHandles(re)
        pt == PendingHandles(te)
        outputs == {EvalCompileTask(ce[h].lazy_handle.work).ok : h \in pc}
                   \cup {RasterRun(re[h].lazy_handle.work).ok : h \in pr}
                   \cup {RtRun(te[h].lazy_handle.work).ok : h \in pt}
        nc == Cardinality(pc)
        nr == Cardinality(pr)
    IN  /\ ~panicked
        /\ UNCHANGED <<compute_shader_to_handle, raster_shaders_to_handle,
                       rt_shaders_to_handle, srcOk>>
        /\ IF pc \cup pr \cup pt = {}
           THEN \* shader_tasks.is_empty()
                /\ compute_entries' = ce
                /\ raster_entries' = re
                /\ rt_entries' = te
                /\ last' = [op |-> "prepare_frame", arg |-> None, ret |-> "Ok"]
                /\ UNCHANGED <<objs, panicked>>
           ELSE IF TryJoinAll(outputs) = "Err"
           THEN \* the `?` after block_on
                /\ compute_entries' = ce
                /\ raster_entries' = re
                /\ rt_entries' = te
                /\ last' = [op |-> "prepare_frame", arg |-> None, ret |-> "Err"]
                /\ UNCHANGED <<objs, panicked>>
           ELSE \/ \* every pipeline is constructed
                   /\ objs + nc + nr + Cardinality(pt) <= MaxObjs
                   /\ compute_entries' = BuildPipelines(ce, pc, objs)
                   /\ raster_entries' = BuildPipelines(re, pr, objs + nc)
                   /\ rt_entries' = BuildPipelines(te, pt, objs + nc + nr)
                   /\ objs' = objs + nc + nr + Cardinality(pt)
                   /\ last' = [op |-> "prepare_frame", arg |-> None, ret |-> "Ok"]
                   /\ UNCHANGED panicked
                \/ \* create_raster_pipeline fails: expect() panics
                   \E f \in pr : \E before \in SUBSET (pr \ {f}) :
                       /\ objs + nc + Cardinality(before) <= MaxObjs
                       /\ compute_entries' = BuildPipelines(ce, pc, objs)
                       /\ raster_entries' = BuildPipelines(re, before, objs + nc)
                       /\ rt_entries' = te
                       /\ objs' = objs + nc + Cardinality(before)
                       /\ panicked' = TRUE
                       /\ last' = [op |-> "prepare_frame", arg |-> None, ret |-> "panic"]
                \/ \* create_ray_tracing_pipeline fails: expect() panics
                   \E f \in pt : \E before \in SUBSET (pt \ {f}) :
                       /\ objs + nc + nr + Cardinality(before) <= MaxObjs
                       /\ compute_entries' = BuildPipelines(ce, pc, objs)
                       /\ raster_entries' = BuildPipelines(re, pr, objs + nc)
                       /\ rt_entries' = BuildPipelines(te, before, objs + nc + nr)
                       /\ objs' = objs + nc + nr + Cardinality(before)
                       /\ panicked' = TRUE
                       /\ last' = [op |-> "prepare_frame", arg |-> None, ret |-> "panic"]

(***************************************************************************)
(* The environment: a shader source file is edited.                        *)
(***************************************************************************)
\* turbosloth marks the lazy handles that read the file (`readers`) stale;
\* is_stale is only ever read of an entry that holds a pipeline.
MarkStale(entries, readers) ==
    [h \in DOMAIN entries |->
        IF entries[h].pipeline # None /\ h \in readers
        THEN [entries[h] EXCEPT !.lazy_handle.stale = TRUE]
        ELSE entries[h]]

ComputeNames(task) == {task.name}

EditSource(name, ok) ==
    /\ ~panicked
    /\ srcOk' = [srcOk EXCEPT ![name] = ok]
    /\ compute_entries' = MarkStale(compute_entries,
            {h \in DOMAIN compute_entries :
                name \in ComputeNames(compute_entries[h].lazy_handle.work)})
    /\ raster_entries' = MarkStale(raster_entries,
            {h \in DOMAIN raster_entries :
                name \in RasterNames(raster_entries[h].lazy_handle.work)})
    /\ rt_entries' = MarkStale(rt_entries,
            {h \in DOMAIN rt_entries : name \in RtNames(rt_entries[h].lazy_handle.work)})
    /\ last' = [op |-> "edit_source", arg |-> None, ret |-> None]
    /\ UNCHANGED <<compute_shader_to_handle, raster_shaders_to_handle,
                   rt_shaders_to_handle, objs, panicked>>

(***************************************************************************)
(* The temporal render graph: kajiya-rg/src/temporal.rs                    *)
(***************************************************************************)
\* TemporalResourceKey: the keys asked of the images and of the buffers.
ImageKeys == {"k1", "k2"}
BufferKeys == {"k1"}

\* ImageDesc / BufferDesc
ImageDescs == {"imgA", "imgB"}
BufferDescs == {"bufA"}

\* vk_sync::AccessType
AccessTypes == {"Nothing", "ComputeShaderWrite"}

\* TemporalResourceState::Inert { resource, access_type }
Inert(resource, access_type) ==
    [tag |-> "Inert", resource |-> resource, access_type |-> access_type, handle |-> None]

\* TemporalResourceState::Imported { resource, handle }
Imported(resource, handle) ==
    [tag |-> "Imported", resource |-> resource, access_type |-> "-", handle |-> Some(handle)]

\* TemporalResourceState::Exported { resource, handle }
Exported(resource, handle) ==
    [tag |-> "Exported", resource |-> resource, access_type |-> "-", handle |-> Some(handle)]

\* TemporalRenderGraphState::default()
DefaultState == [images |-> EmptyMap, buffers |-> EmptyMap]

\* No second TemporalRenderGraphState is held.
NoState == [images |-> EmptyMap, buffers |-> EmptyMap, held |-> FALSE]
Held(state) == [images |-> state.images, buffers |-> state.buffers, held |-> TRUE]

\* RenderGraph::new()
NewGraph == [resources |-> <<>>, exported |-> <<>>]

\* RenderGraph::import(resource, access_type): the graph with the resource,
\* and the handle, the place of the resource in the graph.
RgImport(graph, resource, access_type) ==
    [graph EXCEPT !.resources = Append(@, [resource |-> resource,
                                           access_type |-> access_type])]
RgImportHandle(graph) == Len(graph.resources) + 1

\* RenderGraph::export(handle, access_type): the graph with the export, and
\* the handle of the export.
RgExport(graph, handle, access_type) ==
    [graph EXCEPT !.exported = Append(@, [handle |-> handle, access_type |-> access_type])]
RgExportHandle(graph) == Len(graph.exported) + 1

InitTemporal ==
    /\ stage = "State"
    /\ temporal_state = DefaultState
    /\ old_state = NoState
    /\ rg = NewGraph
    /\ created = 0

\* TemporalRenderGraph::new(state, device)
New ==
    /\ ~panicked
    /\ stage = "State"
    /\ stage' = "Graph"
    /\ rg' = NewGraph
    /\ last' = [op |-> "new", arg |-> None, ret |-> None]
    /\ UNCHANGED <<temporal_state, old_state, created, panicked>>

\* A get_or_create_temporal that imports an entry again when it is already
\* Imported.
GetOrCreateTakingTwice(resources, key, desc, made) ==
    IF ContainsKey(resources, key)
    THEN [resources |-> [resources EXCEPT
                           ![key] = Imported(resources[key].resource, RgImportHandle(rg))],
          rg |-> RgImport(rg, resources[key].resource, "Nothing"),
          created |-> created,
          ret |-> [ok |-> TRUE, val |-> Some(RgImportHandle(rg))],
          panic |-> FALSE]
    ELSE IF ~made
         THEN [resources |-> resources, rg |-> rg, created |-> created,
               ret |-> [ok |-> FALSE, val |-> <<"Creating resource", desc>>],
               panic |-> FALSE]
         ELSE [resources |-> MapInsert(resources, key,
                                 Imported([id |-> created + 1, desc |-> desc],
                                          RgImportHandle(rg))),
               rg |-> RgImport(rg, [id |-> created + 1, desc |-> desc], "Nothing"),
               created |-> created + 1,
               ret |-> [ok |-> TRUE, val |-> Some(RgImportHandle(rg))],
               panic |-> FALSE]

\* A get_or_create_temporal that imports a resource it has just created as
\* if a compute shader had written it.
GetOrCreateImportingWritten(resources, key, desc, made) ==
    IF ContainsKey(resources, key)
    THEN IF resources[key].tag = "Inert"
         THEN [resources |-> [resources EXCEPT
                   ![key] = Imported(resources[key].resource, RgImportHandle(rg))],
               rg |-> RgImport(rg, resources[key].resource, resources[key].access_type),
               created |-> created,
               ret |-> [ok |-> TRUE, val |-> Some(RgImportHandle(rg))],
               panic |-> FALSE]
         ELSE [resources |-> resources, rg |-> rg, created |-> created,
               ret |-> [ok |-> FALSE,
                        val |-> <<"Temporal resource already taken", key>>],
               panic |-> FALSE]
    ELSE IF ~made
         THEN [resources |-> resources, rg |-> rg, created |-> created,
               ret |-> [ok |-> FALSE, val |-> <<"Creating resource", desc>>],
               panic |-> FALSE]
         ELSE [resources |-> MapInsert(resources, key,
                                 Imported([id |-> created + 1, desc |-> desc],
                                          RgImportHandle(rg))),
               rg |-> RgImport(rg, [id |-> created + 1, desc |-> desc],
                               "ComputeShaderWrite"),
               created |-> created + 1,
               ret |-> [ok |-> TRUE, val |-> Some(RgImportHandle(rg))],
               panic |-> FALSE]

\* A get_or_create_temporal that imports an Inert entry without the access
\* type the entry records.
GetOrCreateForgettingAccess(resources, key, desc, made) ==
    IF ContainsKey(resources, key)
    THEN IF resources[key].tag = "Inert"
         THEN [resources |-> [resources EXCEPT
                   ![key] = Imported(resources[key].resource, RgImportHandle(rg))],
               rg |-> RgImport(rg, resources[key].resource, "Nothing"),
               created |-> created,
               ret |-> [ok |-> TRUE, val |-> Some(RgImportHandle(rg))],
               panic |-> FALSE]
         ELSE [resources |-> resources, rg |-> rg, created |-> created,
               ret |-> [ok |-> FALSE,
                        val |-> <<"Temporal resource already taken", key>>],
               panic |-> FALSE]
    ELSE IF ~made
         THEN [resources |-> resources, rg |-> rg, created |-> created,
               ret |-> [ok |-> FALSE, val |-> <<"Creating resource", desc>>],
               panic |-> FALSE]
         ELSE [resources |-> MapInsert(resources, key,
                                 Imported([id |-> created + 1, desc |-> desc],
                                          RgImportHandle(rg))),
               rg |-> RgImport(rg, [id |-> created + 1, desc |-> desc], "Nothing"),
               created |-> created + 1,
               ret |-> [ok |-> TRUE, val |-> Some(RgImportHandle(rg))],
               panic |-> FALSE]

\* A get_or_create that marks the key as taken before the device has created
\* the resource.
GetOrCreateClaimingFirst(resources, key, desc, made) ==
    IF ContainsKey(resources, key)
    THEN LET state == resources[key]
         IN  IF state.tag = "Inert"
             THEN LET handle == RgImportHandle(rg)
                  IN  [resources |-> [resources EXCEPT
                                        ![key] = Imported(state.resource, handle)],
                       rg |-> RgImport(rg, state.resource, state.access_type),
                       created |-> created,
                       ret |-> Ok(handle),
                       panic |-> FALSE]
             ELSE IF state.tag = "Imported"
             THEN [resources |-> resources, rg |-> rg, created |-> created,
                   ret |-> [ok |-> FALSE,
                            val |-> <<"Temporal resource already taken", key>>],
                   panic |-> FALSE]
             ELSE \* unreachable!()
                  [resources |-> resources, rg |-> rg, created |-> created,
                   ret |-> None, panic |-> TRUE]
    ELSE IF ~made
         THEN \* create_image / create_buffer failed: the `?`
              [resources |-> MapInsert(resources, key,
                                       Imported([id |-> 0, desc |-> desc],
                                                RgImportHandle(rg))),
               rg |-> rg, created |-> created,
               ret |-> [ok |-> FALSE, val |-> <<"Creating resource", desc>>],
               panic |-> FALSE]
         ELSE LET resource == [id |-> created + 1, desc |-> desc]
                  handle == RgImportHandle(rg)
              IN  [resources |-> MapInsert(resources, key, Imported(resource, handle)),
                   rg |-> RgImport(rg, resource, "Nothing"),
                   created |-> created + 1,
                   ret |-> Ok(handle),
                   panic |-> FALSE]

\* The match of get_or_create_temporal on the entry of `key` in `resources`;
\* `made` tells whether the device creates the resource. The outcome is the
\* map, the graph, the number of resources created, the result and whether
\* the call panicked.
GetOrCreate(resources, key, desc, made) ==
    IF ContainsKey(resources, key)
    THEN LET state == resources[key]
         IN  IF state.tag = "Inert"
             THEN LET handle == RgImportHandle(rg)
                  IN  [resources |-> [resources EXCEPT
                                        ![key] = Imported(state.resource, handle)],
                       rg |-> RgImport(rg, state.resource, state.access_type),
                       created |-> created,
                       ret |-> Ok(handle),
                       panic |-> FALSE]
             ELSE IF state.tag = "Imported"
             THEN [resources |-> resources, rg |-> rg, created |-> created,
                   ret |-> [ok |-> FALSE,
                            val |-> <<"Temporal resource already taken", key>>],
                   panic |-> FALSE]
             ELSE \* unreachable!()
                  [resources |-> resources, rg |-> rg, created |-> created,
                   ret |-> None, panic |-> TRUE]
    ELSE IF ~made
         THEN \* create_image / create_buffer failed: the `?`
              [resources |-> resources, rg |-> rg, created |-> created,
               ret |-> [ok |-> FALSE, val |-> <<"Creating resource", desc>>],
               panic |-> FALSE]
         ELSE LET resource == [id |-> created + 1, desc |-> desc]
                  handle == RgImportHandle(rg)
              IN  [resources |-> MapInsert(resources, key, Imported(resource, handle)),
                   rg |-> RgImport(rg, resource, "Nothing"),
                   created |-> created + 1,
                   ret |-> Ok(handle),
                   panic |-> FALSE]

\* GetOrCreateTemporal<ImageDesc> for TemporalRenderGraph: get_or_create_temporal
GetOrCreateTemporalImage(key, desc, made) ==
    /\ ~panicked
    /\ stage = "Graph"
    /\ made => created < MaxResources
    /\ \E out \in {GetOrCreate(temporal_state.images, key, desc, made)} :
           /\ temporal_state' = [temporal_state EXCEPT !.images = out.resources]
           /\ rg' = out.rg
           /\ created' = out.created
           /\ panicked' = out.panic
           /\ last' = [op |-> "get_or_create_temporal_image", arg |-> <<key, desc>>,
                       ret |-> out.ret]
    /\ UNCHANGED <<stage, old_state>>

\* GetOrCreateTemporal<BufferDesc> for TemporalRenderGraph: get_or_create_temporal
GetOrCreateTemporalBuffer(key, desc, made) ==
    /\ ~panicked
    /\ stage = "Graph"
    /\ made => created < MaxResources
    /\ \E out \in {GetOrCreate(temporal_state.buffers, key, desc, made)} :
           /\ temporal_state' = [temporal_state EXCEPT !.buffers = out.resources]
           /\ rg' = out.rg
           /\ created' = out.created
           /\ panicked' = out.panic
           /\ last' = [op |-> "get_or_create_temporal_buffer", arg |-> <<key, desc>>,
                       ret |-> out.ret]
    /\ UNCHANGED <<stage, old_state>>

\* The keys of a map in the order the loop over values_mut() meets them.
RECURSIVE KeySeq(_)
KeySeq(keys) ==
    IF keys = {} THEN <<>>
    ELSE LET k == CHOOSE x \in keys : TRUE IN <<k>> \o KeySeq(keys \ {k})

\* An export that leaves every state as it is.
ExportNothing(graph, resources, keys, i) ==
    [rg |-> graph, resources |-> resources, panic |-> FALSE]

\* TemporalRenderGraph::export_temporal_resources: the loop over the states,
\* from the i-th key on, with the graph and the map so far.
RECURSIVE ExportTemporalResources(_, _, _, _)
ExportTemporalResources(graph, resources, keys, i) ==
    IF i > Len(keys) THEN [rg |-> graph, resources |-> resources, panic |-> FALSE]
    ELSE LET state == resources[keys[i]]
         IN  IF state.tag = "Inert"
             THEN ExportTemporalResources(graph, resources, keys, i + 1)
             ELSE IF state.tag = "Imported"
             THEN ExportTemporalResources(
                     RgExport(graph, state.handle[1], "Nothing"),
                     [resources EXCEPT ![keys[i]] =
                         Exported(state.resource, RgExportHandle(graph))],
                     keys, i + 1)
             ELSE \* unreachable!()
                  [rg |-> graph, resources |-> resources, panic |-> TRUE]

\* TemporalRenderGraph::export_temporal
ExportTemporal ==
    /\ ~panicked
    /\ stage = "Graph"
    /\ \E img \in {ExportTemporalResources(rg, temporal_state.images,
                                           KeySeq(DOMAIN temporal_state.images), 1)} :
       \E buf \in {ExportTemporalResources(img.rg, temporal_state.buffers,
                                           KeySeq(DOMAIN temporal_state.buffers), 1)} :
           IF img.panic
           THEN /\ temporal_state' = [temporal_state EXCEPT !.images = img.resources]
                /\ rg' = img.rg
                /\ panicked' = TRUE
                /\ UNCHANGED stage
                /\ last' = [op |-> "export_temporal", arg |-> None, ret |-> "panic"]
           ELSE /\ temporal_state' = [images |-> img.resources, buffers |-> buf.resources]
                /\ rg' = buf.rg
                /\ panicked' = buf.panic
                /\ stage' = IF buf.panic THEN stage ELSE "Exported"
                /\ last' = [op |-> "export_temporal", arg |-> None,
                            ret |-> IF buf.panic THEN "panic" ELSE "Exported"]
    /\ UNCHANGED <<old_state, created>>

\* A retire that records no access for the keys it has flushed.
RetireRecordingNothing(final, resources) ==
    [k \in DOMAIN resources |->
        IF resources[k].tag = "Exported"
        THEN Inert(resources[k].resource, "Nothing")
        ELSE resources[k]]

\* A retire that forgets the keys it has flushed.
RetireDroppingExported(final, resources) ==
    [k \in {x \in DOMAIN resources : resources[x].tag # "Exported"} |-> resources[k]]

\* ExportedTemporalRenderGraphState::retire_temporal_resources; `final` is
\* RetiredRenderGraph::exported_resource(handle).1 per export handle.
RetireTemporalResources(final, resources) ==
    [k \in DOMAIN resources |->
        IF resources[k].tag = "Exported"
        THEN Inert(resources[k].resource, final[resources[k].handle[1]])
        ELSE resources[k]]

\* A retire that passes over the states it does not expect.
RetirePanicsNever(resources) == FALSE

\* An Imported state met by the loop of retire_temporal_resources: unreachable!()
RetirePanics(resources) == \E k \in DOMAIN resources : resources[k].tag = "Imported"

\* ExportedTemporalRenderGraphState::retire_temporal
RetireTemporal(final) ==
    /\ ~panicked
    /\ stage = "Exported"
    /\ IF RetirePanics(temporal_state.images) \/ RetirePanics(temporal_state.buffers)
       THEN /\ panicked' = TRUE
            /\ last' = [op |-> "retire_temporal", arg |-> final, ret |-> "panic"]
            /\ UNCHANGED <<stage, temporal_state, rg>>
       ELSE /\ temporal_state' =
                   [images |-> RetireTemporalResources(final, temporal_state.images),
                    buffers |-> RetireTemporalResources(final, temporal_state.buffers)]
            /\ stage' = "State"
            /\ rg' = NewGraph
            /\ last' = [op |-> "retire_temporal", arg |-> final, ret |-> "State"]
            /\ UNCHANGED panicked
    /\ UNCHANGED <<old_state, created>>

\* TemporalRenderGraphState::clone_assuming_inert_resources
CloneAssumingInertResources(resources) ==
    [k \in DOMAIN resources |->
        Inert(resources[k].resource, resources[k].access_type)]

\* A clone that takes every state for Inert.
ClonePanicsNever(resources) == FALSE

\* The panic!("Not in inert state!") of clone_assuming_inert_resources.
ClonePanics(resources) == \E k \in DOMAIN resources : resources[k].tag # "Inert"

\* TemporalRenderGraphState::clone_assuming_inert: the caller holds the copy.
CloneAssumingInert ==
    /\ ~panicked
    /\ stage = "State"
    /\ IF ClonePanics(temporal_state.images) \/ ClonePanics(temporal_state.buffers)
       THEN /\ panicked' = TRUE
            /\ last' = [op |-> "clone_assuming_inert", arg |-> None, ret |-> "panic"]
            /\ UNCHANGED old_state
       ELSE /\ old_state' =
                   Held([images |-> CloneAssumingInertResources(temporal_state.images),
                         buffers |-> CloneAssumingInertResources(temporal_state.buffers)])
            /\ last' = [op |-> "clone_assuming_inert", arg |-> None, ret |-> "State"]
            /\ UNCHANGED panicked
    /\ UNCHANGED <<stage, temporal_state, rg, created>>

\* The caller moves the ledger out of its owner (a TemporalRenderGraphState,
\* or the pub(crate) field of an ExportedTemporalRenderGraphState) and starts
\* over from TemporalRenderGraphState::default().
TakeState ==
    /\ ~panicked
    /\ stage \in {"State", "Exported"}
    /\ old_state' = Held(temporal_state)
    /\ temporal_state' = DefaultState
    /\ stage' = "State"
    /\ last' = [op |-> "take_state", arg |-> None, ret |-> None]
    /\ UNCHANGED <<rg, created, panicked>>

\* A merge that copies the states of the old ledger as they are.
ReuseFromResourcesAsIs(self_map, other) ==
    [k \in DOMAIN self_map \cup DOMAIN other |->
        IF ContainsKey(self_map, k) THEN self_map[k] ELSE other[k]]

\* A merge in which the old ledger wins over the target.
ReuseFromResourcesOverwriting(self_map, other) ==
    [k \in DOMAIN self_map \cup DOMAIN other |->
        IF ~ContainsKey(other, k) THEN self_map[k]
        ELSE IF other[k].tag = "Inert" THEN other[k]
        ELSE Inert(other[k].resource, "Nothing")]

\* TemporalRenderGraphState::reuse_from_resources
ReuseFromResources(self_map, other) ==
    [k \in DOMAIN self_map \cup DOMAIN other |->
        IF ContainsKey(self_map, k) THEN self_map[k]
        ELSE IF other[k].tag = "Inert" THEN other[k]
        ELSE Inert(other[k].resource, "Nothing")]

\* TemporalRenderGraphState::reuse_from
ReuseFrom ==
    /\ ~panicked
    /\ stage = "State"
    /\ old_state.held
    /\ temporal_state' =
           [images |-> ReuseFromResources(temporal_state.images, old_state.images),
            buffers |-> ReuseFromResources(temporal_state.buffers, old_state.buffers)]
    /\ old_state' = NoState
    /\ last' = [op |-> "reuse_from", arg |-> None, ret |-> None]
    /\ UNCHANGED <<stage, rg, created, panicked>>

(***************************************************************************)
(* prepare_frame step by step: the tasks that parallel_compile_shaders     *)
(* spawns run on the executor's threads while the caller blocks on their   *)
(* join.                                                                   *)
(***************************************************************************)
\* No call of parallel_compile_shaders is in progress.
NoPass == [at |-> "idle", tasks |-> EmptyMap]

\* The tasks of shader_tasks: one per entry without a pipeline, named by the
\* kind and the handle of the entry.
ShaderTasks(ce, re, te) ==
    {<<"compute", h>> : h \in PendingHandles(ce)}
        \cup {<<"raster", h>> : h \in PendingHandles(re)}
        \cup {<<"rt", h>> : h \in PendingHandles(te)}

\* invalidate_stale_pipelines, then the collect() of shader_tasks: every task
\* is spawned; with no task the call returns Ok at once.
SpawnTasks ==
    /\ ~panicked
    /\ pass.at = "idle"
    /\ compute_entries' = InvalidateStale(compute_entries)
    /\ raster_entries' = InvalidateStale(raster_entries)
    /\ rt_entries' = InvalidateStale(rt_entries)
    /\ \E shader_tasks \in {ShaderTasks(InvalidateStale(compute_entries),
                                        InvalidateStale(raster_entries),
                                        InvalidateStale(rt_entries))} :
          IF shader_tasks = {}
          THEN /\ pass' = NoPass
               /\ last' = [op |-> "prepare_frame", arg |-> None, ret |-> "Ok"]
          ELSE /\ pass' = [at |-> "joining", tasks |-> [t \in shader_tasks |-> "running"]]
               /\ last' = [op |-> "prepare_frame", arg |-> None, ret |-> "pending"]
    /\ UNCHANGED <<compute_shader_to_handle, raster_shaders_to_handle,
                   rt_shaders_to_handle, srcOk, objs, panicked>>

\* The output of the future of task t: did the unit compile.
TaskOutput(t) ==
    IF t[1] = "compute" THEN EvalCompileTask(compute_entries[t[2]].lazy_handle.work).ok
    ELSE IF t[1] = "raster" THEN RasterRun(raster_entries[t[2]].lazy_handle.work).ok
    ELSE RtRun(rt_entries[t[2]].lazy_handle.work).ok

\* A spawned task runs to its end on a thread of the executor.
TaskCompletes(t) ==
    /\ ~panicked
    /\ t \in DOMAIN pass.tasks
    /\ pass.tasks[t] = "running"
    /\ pass' = [pass EXCEPT !.tasks[t] = IF TaskOutput(t) THEN "ok" ELSE "err"]
    /\ UNCHANGED <<pcVars, panicked, last>>

\* A join that hands out the outputs as soon as one task has compiled.
JoinedOnFirstOutput(tasks) == \E t \in DOMAIN tasks : tasks[t] = "ok"

\* try_join_all resolves to Ok when every future has resolved to Ok.
JoinedOk(tasks) == \A t \in DOMAIN tasks : tasks[t] = "ok"

\* try_join_all resolves to Err as soon as it meets a future that resolved to
\* Err.
JoinedErr(tasks) == \E t \in DOMAIN tasks : tasks[t] = "err"

\* Task handles that are dropped without an effect on their tasks.
DropDetaching(tasks) == tasks

\* The drop of the smol::Task handles try_join_all held: a task that has not
\* finished is cancelled.
DropTasks(tasks) ==
    [t \in DOMAIN tasks |-> IF tasks[t] = "running" THEN "cancelled" ELSE tasks[t]]

\* block_on(try_join_all(shader_tasks))? returns the error of a task.
JoinReturnsErr ==
    /\ ~panicked
    /\ pass.at = "joining"
    /\ JoinedErr(pass.tasks)
    /\ pass' = [at |-> "idle", tasks |-> DropTasks(pass.tasks)]
    /\ last' = [op |-> "prepare_frame", arg |-> None, ret |-> "Err"]
    /\ UNCHANGED <<pcVars, panicked>>

\* block_on(try_join_all(shader_tasks)) returns the outputs of all tasks.
JoinReturnsOk ==
    /\ ~panicked
    /\ pass.at = "joining"
    /\ JoinedOk(pass.tasks)
    /\ pass' = [pass EXCEPT !.at = "building"]
    /\ UNCHANGED <<pcVars, panicked, last>>

\* The place of a kind in compute.chain(raster).chain(rt).
KindRank(kind) == IF kind = "compute" THEN 1 ELSE IF kind = "raster" THEN 2 ELSE 3

\* The output of task t is one the loop over `compiled` can meet next.
NextCompiled(t) ==
    /\ t \in DOMAIN pass.tasks
    /\ pass.tasks[t] = "ok"
    /\ \A u \in DOMAIN pass.tasks :
          pass.tasks[u] = "ok" => KindRank(u[1]) >= KindRank(t[1])

\* entry.pipeline = Some(Arc::new(..)) of the entry with handle h.
StorePipeline(entries, h, obj) ==
    [entries EXCEPT ![h].pipeline = Some(obj), ![h].lazy_handle.stale = FALSE]

\* One turn of the loop "Build pipelines from all compiled shaders".
CreatePipeline(t) ==
    /\ ~panicked
    /\ pass.at = "building"
    /\ NextCompiled(t)
    /\ objs < MaxObjs
    /\ compute_entries' = IF t[1] = "compute"
                          THEN StorePipeline(compute_entries, t[2], objs + 1)
                          ELSE compute_entries
    /\ raster_entries' = IF t[1] = "raster"
                         THEN StorePipeline(raster_entries, t[2], objs + 1)
                         ELSE raster_entries
    /\ rt_entries' = IF t[1] = "rt"
                     THEN StorePipeline(rt_entries, t[2], objs + 1)
                     ELSE rt_entries
    /\ objs' = objs + 1
    /\ pass' = [pass EXCEPT !.tasks[t] = "built"]
    /\ UNCHANGED <<compute_shader_to_handle, raster_shaders_to_handle,
                   rt_shaders_to_handle, srcOk, panicked, last>>

\* create_raster_pipeline or create_ray_tracing_pipeline fails: expect() panics.
CreatePipelinePanics(t) ==
    /\ ~panicked
    /\ pass.at = "building"
    /\ NextCompiled(t)
    /\ t[1] \in {"raster", "rt"}
    /\ panicked' = TRUE
    /\ last' = [op |-> "prepare_frame", arg |-> None, ret |-> "panic"]
    /\ UNCHANGED <<pcVars, pass>>

\* The loop is over: parallel_compile_shaders and prepare_frame return Ok(()).
PassReturnsOk ==
    /\ ~panicked
    /\ pass.at = "building"
    /\ \A t \in DOMAIN pass.tasks : pass.tasks[t] = "built"
    /\ pass' = [pass EXCEPT !.at = "idle"]
    /\ last' = [op |-> "prepare_frame", arg |-> None, ret |-> "Ok"]
    /\ UNCHANGED <<pcVars, panicked>>

(***************************************************************************)
(* The specifications: the pipeline cache, and the temporal render graph.  *)
(***************************************************************************)
Init ==
    /\ InitPipelineCache
    /\ srcOk = [n \in {s.name : s \in Sources} |-> TRUE]
    /\ InitTemporal
    /\ pass = NoPass
    /\ panicked = FALSE
    /\ last = [op |-> "new", arg |-> None, ret |-> None]

Next ==
    \/ (\E desc \in ComputeDescs : RegisterCompute(desc)) /\ UNCHANGED <<trgVars, pass>>
    \/ (\E shaders \in RasterShaders, desc \in PipelineDescs : RegisterRaster(shaders, desc))
       /\ UNCHANGED <<trgVars, pass>>
    \/ (\E shaders \in RtShaders, desc \in PipelineDescs : RegisterRayTracing(shaders, desc))
       /\ UNCHANGED <<trgVars, pass>>
    \/ (\E handle \in DOMAIN compute_entries : GetCompute(handle)) /\ UNCHANGED <<trgVars, pass>>
    \/ (\E handle \in DOMAIN raster_entries : GetRaster(handle)) /\ UNCHANGED <<trgVars, pass>>
    \/ (\E handle \in DOMAIN rt_entries : GetRayTracing(handle)) /\ UNCHANGED <<trgVars, pass>>
    \/ PrepareFrame /\ UNCHANGED <<trgVars, pass>>
    \/ (\E name \in {s.name : s \in Sources}, ok \in BOOLEAN : EditSource(name, ok))
       /\ UNCHANGED <<trgVars, pass>>

Spec == Init /\ [][Next]_vars

TemporalNext ==
    \/ New /\ UNCHANGED <<pcVars, pass>>
    \/ (\E key \in ImageKeys, desc \in ImageDescs, made \in BOOLEAN :
          GetOrCreateTemporalImage(key, desc, made)) /\ UNCHANGED <<pcVars, pass>>
    \/ (\E key \in BufferKeys, desc \in BufferDescs, made \in BOOLEAN :
          GetOrCreateTemporalBuffer(key, desc, made)) /\ UNCHANGED <<pcVars, pass>>
    \/ ExportTemporal /\ UNCHANGED <<pcVars, pass>>
    \/ (stage = "Exported"
        /\ \E final \in [1..Len(rg.exported) -> AccessTypes] : RetireTemporal(final))
       /\ UNCHANGED <<pcVars, pass>>
    \/ CloneAssumingInert /\ UNCHANGED <<pcVars, pass>>
    \/ TakeState /\ UNCHANGED <<pcVars, pass>>
    \/ ReuseFrom /\ UNCHANGED <<pcVars, pass>>

TemporalSpec == Init /\ [][TemporalNext]_vars

\* The tasks a pass can spawn.
TaskIds == {"compute", "raster", "rt"} \X (0..(MaxEntries - 1))

\* No pass has spawned a task yet.
BeforeFirstPass == pass = NoPass /\ objs = 0

\* The application registers its pipelines at start-up, before the first
\* frame that compiles (the cache is borrowed mutably for the whole of
\* prepare_frame, so no registration falls into a pass). A source file can
\* change at any time.
CompileNext ==
    \/ (BeforeFirstPass /\ \E desc \in ComputeDescs : RegisterCompute(desc))
       /\ UNCHANGED <<trgVars, pass>>
    \/ (BeforeFirstPass
        /\ \E shaders \in RasterShaders, desc \in PipelineDescs :
              RegisterRaster(shaders, desc))
       /\ UNCHANGED <<trgVars, pass>>
    \/ (BeforeFirstPass
        /\ \E shaders \in RtShaders, desc \in PipelineDescs :
              RegisterRayTracing(shaders, desc))
       /\ UNCHANGED <<trgVars, pass>>
    \/ (\E name \in {s.name : s \in Sources}, ok \in BOOLEAN : EditSource(name, ok))
       /\ UNCHANGED <<trgVars, pass>>
    \/ SpawnTasks /\ UNCHANGED trgVars
    \/ (\E t \in TaskIds : TaskCompletes(t)) /\ UNCHANGED trgVars
    \/ JoinReturnsErr /\ UNCHANGED trgVars
    \/ JoinReturnsOk /\ UNCHANGED trgVars
    \/ (\E t \in TaskIds : CreatePipeline(t)) /\ UNCHANGED trgVars
    \/ (\E t \in TaskIds : CreatePipelinePanics(t)) /\ UNCHANGED trgVars
    \/ PassReturnsOk /\ UNCHANGED trgVars

CompileSpec == Init /\ [][CompileNext]_vars

(***************************************************************************)
(* The public operations alone, from TemporalRenderGraphState::default():  *)
(* the ledger moves only through new, export_temporal and retire_temporal, *)
(* each of which consumes its owner.                                       *)
(***************************************************************************)
PublicNext ==
    \/ New /\ UNCHANGED <<pcVars, pass>>
    \/ (\E key \in ImageKeys, desc \in ImageDescs, made \in BOOLEAN :
          GetOrCreateTemporalImage(key, desc, made)) /\ UNCHANGED <<pcVars, pass>>
    \/ (\E key \in BufferKeys, desc \in BufferDescs, made \in BOOLEAN :
          GetOrCreateTemporalBuffer(key, desc, made)) /\ UNCHANGED <<pcVars, pass>>
    \/ ExportTemporal /\ UNCHANGED <<pcVars, pass>>
    \/ (stage = "Exported"
        /\ \E final \in [1..Len(rg.exported) -> AccessTypes] : RetireTemporal(final))
       /\ UNCHANGED <<pcVars, pass>>

PublicSpec == Init /\ [][PublicNext]_vars

(***************************************************************************)
(* The functions of TemporalRenderGraphState, clone_assuming_inert and     *)
(* reuse_from, applied to any ledgers: every key in every state.           *)
(***************************************************************************)
\* The states an entry can be in. Each holds a resource of its own, numbered
\* from `base`, so that a copied entry shows which entry it is a copy of.
LedgerStates(base, desc) ==
    {Inert([id |-> base, desc |-> desc], access_type) : access_type \in AccessTypes}
        \cup {Imported([id |-> base + 1, desc |-> desc], 1),
              Exported([id |-> base + 2, desc |-> desc], 1)}

\* ResMap<Res>: the maps from some of the keys to states.
LedgerMaps(keys, base, desc) ==
    UNION {[d -> LedgerStates(base, desc)] : d \in SUBSET keys}

\* TemporalRenderGraphState { images, buffers }
AnyLedgers(base) ==
    [images : LedgerMaps(ImageKeys, base, "imgA"),
     buffers : LedgerMaps(BufferKeys, base, "bufA")]

\* `self` is any ledger; the caller holds no other ledger, or any other one.
LedgerInit ==
    /\ InitPipelineCache
    /\ srcOk = [n \in {s.name : s \in Sources} |-> TRUE]
    /\ stage = "State"
    /\ temporal_state \in AnyLedgers(1)
    /\ old_state \in {NoState} \cup {Held(other) : other \in AnyLedgers(4)}
    /\ rg = NewGraph
    /\ created = 0
    /\ pass = NoPass
    /\ panicked = FALSE
    /\ last = [op |-> "new", arg |-> None, ret |-> None]

LedgerNext ==
    \/ CloneAssumingInert /\ UNCHANGED <<pcVars, pass>>
    \/ ReuseFrom /\ UNCHANGED <<pcVars, pass>>

LedgerSpec == LedgerInit /\ [][LedgerNext]_vars

(***************************************************************************)
(* get_or_create_temporal, export_temporal and retire_temporal applied to  *)
(* any ledger: every key in every state, whatever the stage.               *)
(***************************************************************************)
\* A render graph that holds the resource and the export the handles of the
\* Imported and Exported states of AnyLedgers refer to.
GraphInUse ==
    RgExport(RgImport(NewGraph, [id |-> 0, desc |-> "imgA"], "Nothing"), 1, "Nothing")

\* `self` is a TemporalRenderGraph or an ExportedTemporalRenderGraphState
\* over any ledger.
AnyStageInit ==
    /\ InitPipelineCache
    /\ srcOk = [n \in {s.name : s \in Sources} |-> TRUE]
    /\ stage \in {"Graph", "Exported"}
    /\ temporal_state \in AnyLedgers(MaxResources + 1)
    /\ old_state = NoState
    /\ rg = GraphInUse
    /\ created = 0
    /\ pass = NoPass
    /\ panicked = FALSE
    /\ last = [op |-> "new", arg |-> None, ret |-> None]

AnyStageNext ==
    \/ (\E key \in ImageKeys, desc \in ImageDescs, made \in BOOLEAN :
          GetOrCreateTemporalImage(key, desc, made)) /\ UNCHANGED <<pcVars, pass>>
    \/ (\E key \in BufferKeys, desc \in BufferDescs, made \in BOOLEAN :
          GetOrCreateTemporalBuffer(key, desc, made)) /\ UNCHANGED <<pcVars, pass>>
    \/ ExportTemporal /\ UNCHANGED <<pcVars, pass>>
    \/ (stage = "Exported"
        /\ \E final \in [1..Len(rg.exported) -> AccessTypes] : RetireTemporal(final))
       /\ UNCHANGED <<pcVars, pass>>

AnyStageSpec == AnyStageInit /\ [][AnyStageNext]_vars

(***************************************************************************)
(* The workers of the raster and ray-tracing compilation units, run on     *)
(* any stage list, with the compile tasks each run evaluates.              *)
(***************************************************************************)
\* compile(desc, profile, ctx): the result, and the compile task it awaited.
CompileLogged(desc, profile) ==
    [ret |-> Compile(desc, profile), compiled |-> <<CompileTask(desc.source, profile)>>]

\* A raster worker that compiles the pixel shader whatever the vertex shader
\* gave.
RasterRunCompilingAll(shaders) ==
    [ret |-> IF Compile(shaders.vertex, "vs").ok /\ Compile(shaders.pixel, "ps").ok
             THEN Ok([vertex |-> Compile(shaders.vertex, "vs").val[1],
                      pixel |-> Compile(shaders.pixel, "ps").val[1]])
             ELSE Err,
     compiled |-> <<CompileTask(shaders.vertex.source, "vs"),
                    CompileTask(shaders.pixel.source, "ps")>>]

\* LazyWorker for RasterPipelineShadersDesc: run, each `?` returning at once.
RasterRunLogged(shaders) ==
    LET vertex == CompileLogged(shaders.vertex, "vs")
    IN  IF ~vertex.ret.ok THEN [ret |-> Err, compiled |-> vertex.compiled]
        ELSE LET pixel == CompileLogged(shaders.pixel, "ps")
             IN  IF ~pixel.ret.ok
                 THEN [ret |-> Err, compiled |-> vertex.compiled \o pixel.compiled]
                 ELSE [ret |-> Ok([vertex |-> vertex.ret.val[1],
                                   pixel |-> pixel.ret.val[1]]),
                       compiled |-> vertex.compiled \o pixel.compiled]

\* The match on an Option<PipelineShaderDesc> of a hit group.
CompileOptionLogged(shader) ==
    IF shader = NoStage THEN [ret |-> Ok(NoStage), compiled |-> <<>>]
    ELSE CompileLogged(shader, "lib")

\* One turn of the loop over self.0 in the ray-tracing worker.
RtGroupLogged(g) ==
    IF g.tag \in {"RayGen", "Miss"}
    THEN LET c == CompileLogged(g.g, "lib")
         IN  IF ~c.ret.ok THEN [ret |-> Err, compiled |-> c.compiled]
             ELSE [ret |-> Ok([tag |-> g.tag, shader |-> c.ret.val[1]]),
                   compiled |-> c.compiled]
    ELSE LET ch == CompileOptionLogged(g.closest_hit)
         IN  IF ~ch.ret.ok THEN [ret |-> Err, compiled |-> ch.compiled]
             ELSE LET is == CompileOptionLogged(g.intersection)
                  IN  IF ~is.ret.ok
                      THEN [ret |-> Err, compiled |-> ch.compiled \o is.compiled]
                      ELSE [ret |-> Ok([tag |-> "HitGroup",
                                        cloest_hit |-> ch.ret.val[1],
                                        intersection |-> is.ret.val[1]]),
                            compiled |-> ch.compiled \o is.compiled]

\* LazyWorker for RayTracingPipelineShadersDesc: run, each `?` returning at once.
RECURSIVE RtRunLogged(_)
RtRunLogged(groups) ==
    IF groups = <<>> THEN [ret |-> Ok(<<>>), compiled |-> <<>>]
    ELSE LET head == RtGroupLogged(Head(groups))
         IN  IF ~head.ret.ok THEN [ret |-> Err, compiled |-> head.compiled]
             ELSE LET rest == RtRunLogged(Tail(groups))
                  IN  IF ~rest.ret.ok
                      THEN [ret |-> Err, compiled |-> head.compiled \o rest.compiled]
                      ELSE [ret |-> Ok(<<head.ret.val[1]>> \o rest.ret.val[1]),
                            compiled |-> head.compiled \o rest.compiled]

\* Every RasterPipelineShadersDesc over the sources.
AnyRasterShaders == [vertex : {Stage(s) : s \in Sources}, pixel : {Stage(s) : s \in Sources}]

\* Every ShaderGroupDesc over the sources.
AnyGroups ==
    {RayGen(s) : s \in Sources} \cup {Miss(s) : s \in Sources}
        \cup {HitGroup(c, i) : c \in {NoStage} \cup {Stage(s) : s \in Sources},
                               i \in {NoStage} \cup {Stage(s) : s \in Sources}}

\* Every Vec<ShaderGroupDesc> of up to MaxGroups groups.
AnyRtShaders == UNION {[1..n -> AnyGroups] : n \in 0..MaxGroups}

\* run(self, ctx) of the raster worker: it consumes the worker.
RasterWorkerRuns(shaders) ==
    /\ last = [op |-> "raster_worker", arg |-> shaders, ret |-> None]
    /\ last' = [op |-> "raster_run", arg |-> shaders, ret |-> RasterRunLogged(shaders)]
    /\ UNCHANGED <<pcVars, trgVars, pass, panicked>>

\* run(self, ctx) of the ray-tracing worker: it consumes the worker.
RtWorkerRuns(groups) ==
    /\ last = [op |-> "rt_worker", arg |-> groups, ret |-> None]
    /\ last' = [op |-> "rt_run", arg |-> groups, ret |-> RtRunLogged(groups)]
    /\ UNCHANGED <<pcVars, trgVars, pass, panicked>>

\* A worker of either kind over any stage list; each source file compiles or
\* does not.
WorkerInit ==
    /\ InitPipelineCache
    /\ srcOk \in [{s.name : s \in Sources} -> BOOLEAN]
    /\ InitTemporal
    /\ pass = NoPass
    /\ panicked = FALSE
    /\ \/ \E shaders \in AnyRasterShaders :
              last = [op |-> "raster_worker", arg |-> shaders, ret |-> None]
       \/ \E groups \in AnyRtShaders :
              last = [op |-> "rt_worker", arg |-> groups, ret |-> None]

WorkerNext ==
    \/ \E shaders \in AnyRasterShaders : RasterWorkerRuns(shaders)
    \/ \E groups \in AnyRtShaders : RtWorkerRuns(groups)

WorkerSpec == WorkerInit /\ [][WorkerNext]_vars

(***************************************************************************)
(* Properties of the pipeline cache.                                       *)
(***************************************************************************)
RegisterOps == {"register_compute", "register_raster", "register_ray_tracing"}
GetOps == {"get_compute", "get_raster", "get_ray_tracing"}

\* The entries a prepare_frame that starts now dispatches a compile task for:
\* those without a pipeline, and those whose pipeline the invalidation clears.
Dispatched(entries) ==
    {h \in DOMAIN entries : entries[h].pipeline = None \/ entries[h].lazy_handle.stale}

\* The entries that hold a pipeline.
Materialized(entries) == {h \in DOMAIN entries : entries[h].pipeline # None}

AllMaterialized ==
    /\ Materialized(compute_entries) = DOMAIN compute_entries
    /\ Materialized(raster_entries) = DOMAIN raster_entries
    /\ Materialized(rt_entries) = DOMAIN rt_entries

\* Does the compilation unit of an entry compile, with the sources as they are.
ComputeCompiles(e) == srcOk[e.desc.source.name]
RasterCompiles(e) ==
    srcOk[e.lazy_handle.work.vertex.source.name] /\ srcOk[e.lazy_handle.work.pixel.source.name]
RtCompiles(e) == \A n \in RtNames(e.lazy_handle.work) : srcOk[n]

\* Some entry a pass starting now dispatches fails to compile.
SomeDispatchedFails ==
    \/ \E h \in Dispatched(compute_entries) : ~ComputeCompiles(compute_entries[h])
    \/ \E h \in Dispatched(raster_entries) : ~RasterCompiles(raster_entries[h])
    \/ \E h \in Dispatched(rt_entries) : ~RtCompiles(rt_entries[h])

\* No entry of `new` holds a pipeline object that `old` did not hold for it.
NoneStored(old, new) ==
    \A h \in DOMAIN old : new[h].pipeline \in {None, old[h].pipeline}

\* C1: for each pipeline kind, a register call whose description has its key
\* in the deduplication index already (as it has after any earlier call with
\* an equal description) returns the handle recorded for it and changes
\* nothing: no entry, no compilation unit and no index key is added, and the
\* number of entries of the kind is the same before and after the call.
C1_RegisterTwiceSameHandle ==
    [][ /\ (last'.op = "register_compute"
            /\ last'.arg.source \in DOMAIN compute_shader_to_handle)
           => /\ last'.ret = compute_shader_to_handle[last'.arg.source]
              /\ compute_entries' = compute_entries
              /\ compute_shader_to_handle' = compute_shader_to_handle
              /\ Cardinality(DOMAIN compute_entries') = Cardinality(DOMAIN compute_entries)
        /\ (last'.op = "register_raster"
            /\ last'.arg[1] \in DOMAIN raster_shaders_to_handle)
           => /\ last'.ret = raster_shaders_to_handle[last'.arg[1]]
              /\ raster_entries' = raster_entries
              /\ raster_shaders_to_handle' = raster_shaders_to_handle
              /\ Cardinality(DOMAIN raster_entries') = Cardinality(DOMAIN raster_entries)
        /\ (last'.op = "register_ray_tracing"
            /\ last'.arg[1] \in DOMAIN rt_shaders_to_handle)
           => /\ last'.ret = rt_shaders_to_handle[last'.arg[1]]
              /\ rt_entries' = rt_entries
              /\ rt_shaders_to_handle' = rt_shaders_to_handle
              /\ Cardinality(DOMAIN rt_entries') = Cardinality(DOMAIN rt_entries)
      ]_vars

\* A second registration of a compute description: handle 0 is returned while
\* two compute entries exist, and the entry behind it holds that description.
C1_Witness ==
    /\ last.op = "register_compute"
    /\ Cardinality(DOMAIN compute_entries) = 2
    /\ last.ret = 0
    /\ compute_entries[0].desc = last.arg

\* C2: registering a description never returns the handle of an entry that was
\* registered with a different description of the same kind, whatever field of
\* the description the two differ in (for raster and ray tracing the
\* description is the shaders together with the pipeline description).
C2_DistinctDescriptionsDistinctHandles ==
    [][ /\ last'.op = "register_compute"
           => \A h \in DOMAIN compute_entries :
                 compute_entries[h].desc # last'.arg => last'.ret # h
        /\ last'.op = "register_raster"
           => \A h \in DOMAIN raster_entries :
                 <<raster_entries[h].lazy_handle.work, raster_entries[h].desc>> # last'.arg
                    => last'.ret # h
        /\ last'.op = "register_ray_tracing"
           => \A h \in DOMAIN rt_entries :
                 <<rt_entries[h].lazy_handle.work, rt_entries[h].desc>> # last'.arg
                    => last'.ret # h
      ]_vars

\* C3: in the state a prepare_frame that returned Ok leaves, every registered
\* entry of every kind holds a pipeline object, so no get_* unwrap panics.
C3_OkMaterializesAll ==
    (last.op = "prepare_frame" /\ last.ret = "Ok")
    => /\ AllMaterialized
       /\ \A h \in DOMAIN compute_entries : ~Unwrap(compute_entries[h].pipeline).panic
       /\ \A h \in DOMAIN raster_entries : ~Unwrap(raster_entries[h].pipeline).panic
       /\ \A h \in DOMAIN rt_entries : ~Unwrap(rt_entries[h].pipeline).panic

\* A successful prepare_frame over entries of two kinds.
C3_Witness ==
    /\ last.op = "prepare_frame"
    /\ last.ret = "Ok"
    /\ DOMAIN compute_entries # {}
    /\ DOMAIN raster_entries # {}

\* C4: when at least one entry dispatched by a pass fails to compile, the
\* prepare_frame returns Err, the driver constructs no pipeline object, no
\* entry stores a new object, and every dispatched entry, the ones that
\* compiled included, is without a pipeline object after the pass.
C4_FailedPassBuildsNothing ==
    [][ (last'.op = "prepare_frame" /\ SomeDispatchedFails)
        => /\ last'.ret = "Err"
           /\ objs' = objs
           /\ NoneStored(compute_entries, compute_entries')
           /\ NoneStored(raster_entries, raster_entries')
           /\ NoneStored(rt_entries, rt_entries')
           /\ \A h \in Dispatched(compute_entries) : compute_entries'[h].pipeline = None
           /\ \A h \in Dispatched(raster_entries) : raster_entries'[h].pipeline = None
           /\ \A h \in Dispatched(rt_entries) : rt_entries'[h].pipeline = None
      ]_vars

\* A failed pass that dispatched one entry that compiles and one that does not.
C4_Witness ==
    /\ last.op = "prepare_frame"
    /\ last.ret = "Err"
    /\ \E h \in DOMAIN compute_entries :
          compute_entries[h].pipeline = None /\ ComputeCompiles(compute_entries[h])
    /\ \E h \in DOMAIN raster_entries :
          raster_entries[h].pipeline = None /\ ~RasterCompiles(raster_entries[h])

\* The entry kept everything but its pipeline object.
SameButPipeline(old, new) == [new EXCEPT !.pipeline = None] = [old EXCEPT !.pipeline = None]

\* A prepare_frame replaces the object of a stale materialized entry: the old
\* object is gone, a returned Ok means a new object is stored, a returned Err
\* means none is.
StaleReplaced(old, new) ==
    \A h \in DOMAIN old :
        (old[h].pipeline # None /\ old[h].lazy_handle.stale)
        => /\ new[h].pipeline # old[h].pipeline
           /\ new[h].desc = old[h].desc
           /\ last'.ret = "Ok" => new[h].pipeline # None
           /\ last'.ret = "Err" => new[h].pipeline = None

\* C5: a prepare_frame that finds an entry with a pipeline object and a stale
\* compilation unit clears the object; if it returns Ok the entry holds a
\* newly constructed object different from the previous one; the handles the
\* index records do not change.
C5_StaleRecompiled ==
    [][ last'.op = "prepare_frame"
        => /\ StaleReplaced(compute_entries, compute_entries')
           /\ StaleReplaced(raster_entries, raster_entries')
           /\ StaleReplaced(rt_entries, rt_entries')
           /\ compute_shader_to_handle' = compute_shader_to_handle
           /\ raster_shaders_to_handle' = raster_shaders_to_handle
           /\ rt_shaders_to_handle' = rt_shaders_to_handle
      ]_vars

\* The only entry holds the second object the driver constructed: it was
\* built, went stale and was built again.
C5_Witness ==
    /\ last.op = "prepare_frame"
    /\ last.ret = "Ok"
    /\ DOMAIN compute_entries = {0}
    /\ DOMAIN raster_entries = {}
    /\ DOMAIN rt_entries = {}
    /\ compute_entries[0].pipeline = Some(2)

\* A prepare_frame leaves the entries that hold an object and are not stale as
\* they are, and dispatches none of them.
FreshKept(old, new) ==
    \A h \in DOMAIN old :
        (old[h].pipeline # None /\ ~old[h].lazy_handle.stale)
        => /\ new[h] = old[h]
           /\ h \notin PendingHandles(InvalidateStale(old))

\* C6: an entry with a pipeline object whose compilation unit is not stale is
\* unchanged by prepare_frame, whether it returns Ok or Err or panics: it is
\* not dispatched, it keeps its object, and the driver constructs at most one
\* object per dispatched entry.
C6_FreshEntryUntouched ==
    [][ last'.op = "prepare_frame"
        => /\ FreshKept(compute_entries, compute_entries')
           /\ FreshKept(raster_entries, raster_entries')
           /\ FreshKept(rt_entries, rt_entries')
           /\ objs' - objs <= Cardinality(Dispatched(compute_entries))
                              + Cardinality(Dispatched(raster_entries))
                              + Cardinality(Dispatched(rt_entries))
      ]_vars

\* A pass failed on a raster entry while a compute entry, not stale, kept the
\* object of an earlier pass.
C6_Witness ==
    /\ last.op = "prepare_frame"
    /\ \E h \in DOMAIN compute_entries : compute_entries[h].pipeline = Some(1)
    /\ \E h \in DOMAIN raster_entries : raster_entries[h].pipeline = None
    /\ last.ret = "Err"

\* Entries are never removed, keep what they were registered with, and a new
\* entry gets a handle above every handle given out before.
ArenaGrows(old, new) ==
    /\ DOMAIN old \subseteq DOMAIN new
    /\ \A h \in DOMAIN old :
          new[h].desc = old[h].desc /\ new[h].lazy_handle.work = old[h].lazy_handle.work
    /\ \A n \in DOMAIN new \ DOMAIN old : \A h \in DOMAIN old : n > h

\* Index keys are never removed or remapped, a new key maps to a handle no
\* entry had, and no two keys share a handle.
IndexGrows(old, new, entries) ==
    /\ DOMAIN old \subseteq DOMAIN new
    /\ \A k \in DOMAIN old : new[k] = old[k]
    /\ \A k \in DOMAIN new \ DOMAIN old : new[k] \notin DOMAIN entries
    /\ \A k1, k2 \in DOMAIN new : new[k1] = new[k2] => k1 = k2

\* The handle a register call returns refers to an entry that holds exactly
\* the description the call passed.
ReturnsOwnEntry ==
    /\ last'.op = "register_compute"
       => compute_entries'[last'.ret].desc = last'.arg
    /\ last'.op = "register_raster"
       => <<raster_entries'[last'.ret].lazy_handle.work,
            raster_entries'[last'.ret].desc>> = last'.arg
    /\ last'.op = "register_ray_tracing"
       => <<rt_entries'[last'.ret].lazy_handle.work,
            rt_entries'[last'.ret].desc>> = last'.arg

\* C7: within each pipeline kind, over every step (register, get,
\* prepare_frame, source edit), a new entry gets a handle greater than all
\* handles given out before, no entry is removed, an entry keeps the shaders
\* and description it was registered with, the index never remaps a key, no
\* handle is recorded for two keys, and no handle is given to a description
\* other than the one its entry was registered with.
C7_HandlesMonotonicNeverReused ==
    [][ /\ ArenaGrows(compute_entries, compute_entries')
        /\ ArenaGrows(raster_entries, raster_entries')
        /\ ArenaGrows(rt_entries, rt_entries')
        /\ IndexGrows(compute_shader_to_handle, compute_shader_to_handle', compute_entries)
        /\ IndexGrows(raster_shaders_to_handle, raster_shaders_to_handle', raster_entries)
        /\ IndexGrows(rt_shaders_to_handle, rt_shaders_to_handle', rt_entries)
        /\ ReturnsOwnEntry
      ]_vars

\* The part of C7 the code keeps: handles grow, entries and index keys stay.
HandlesGrowAndStay ==
    [][ /\ ArenaGrows(compute_entries, compute_entries')
        /\ ArenaGrows(raster_entries, raster_entries')
        /\ ArenaGrows(rt_entries, rt_entries')
        /\ IndexGrows(compute_shader_to_handle, compute_shader_to_handle', compute_entries)
        /\ IndexGrows(raster_shaders_to_handle, raster_shaders_to_handle', raster_entries)
        /\ IndexGrows(rt_shaders_to_handle, rt_shaders_to_handle', rt_entries)
      ]_vars

\* The entry the last get_* call asked for.
GotEntry ==
    IF last.op = "get_compute" THEN compute_entries[last.arg]
    ELSE IF last.op = "get_raster" THEN raster_entries[last.arg]
    ELSE rt_entries[last.arg]

\* C8: a get_* on an entry without a pipeline object panics: it returns
\* neither an error nor a None object; on an entry with an object it returns
\* that object.
C8_GetWithoutPipelinePanics ==
    last.op \in GetOps
    => /\ GotEntry.pipeline = None => (last.ret.panic /\ panicked)
       /\ GotEntry.pipeline # None => (~last.ret.panic /\ last.ret.value = GotEntry.pipeline)

\* A get_* that panicked on an entry whose object was cleared as stale by a
\* prepare_frame whose compile pass failed.
C8_Witness ==
    /\ last.op = "get_raster"
    /\ last.ret.panic
    /\ GotEntry.pipeline = None
    /\ GotEntry.lazy_handle.stale

\* Every entry a failed pass dispatched is registered and without an object
\* afterwards, so that the next pass dispatches it again.
StaysPending(old, new) ==
    \A h \in Dispatched(old) : h \in DOMAIN new /\ h \in Dispatched(new)

\* Some entry is without its object because a failed pass cleared it as stale
\* and built nothing.
LeftByFailedPass ==
    \/ \E h \in DOMAIN compute_entries :
          compute_entries[h].pipeline = None /\ compute_entries[h].lazy_handle.stale
    \/ \E h \in DOMAIN raster_entries :
          raster_entries[h].pipeline = None /\ raster_entries[h].lazy_handle.stale
    \/ \E h \in DOMAIN rt_entries :
          rt_entries[h].pipeline = None /\ rt_entries[h].lazy_handle.stale

\* C9 as claimed: after a failed pass, a prepare_frame that finds every
\* dispatched compilation unit compiling returns Ok and leaves every
\* registered entry with an object.
C9_RetrySucceeds ==
    [][ (last'.op = "prepare_frame" /\ LeftByFailedPass /\ ~SomeDispatchedFails)
        => (last'.ret = "Ok" /\ AllMaterialized')
      ]_vars

\* C9 amended: the entries a failed prepare_frame dispatched stay registered
\* and pending; a prepare_frame that finds every dispatched compilation unit
\* compiling never returns Err: it returns Ok with every registered entry
\* holding an object, or it panics in the construction of a raster or
\* ray-tracing pipeline.
C9_RetrySucceedsUnlessDriverRejects ==
    [][ /\ (last'.op = "prepare_frame" /\ last'.ret = "Err")
           => /\ StaysPending(compute_entries, compute_entries')
              /\ StaysPending(raster_entries, raster_entries')
              /\ StaysPending(rt_entries, rt_entries')
        /\ (last'.op = "prepare_frame" /\ ~SomeDispatchedFails)
           => \/ last'.ret = "Ok" /\ AllMaterialized'
              \/ /\ last'.ret = "panic"
                 /\ panicked'
                 /\ Dispatched(raster_entries) \cup Dispatched(rt_entries) # {}
      ]_vars

\* An entry whose stale object a failed pass cleared, with every source
\* compiling again: the retry is the next prepare_frame.
C9_Witness ==
    /\ last.op = "edit_source"
    /\ LeftByFailedPass
    /\ ~SomeDispatchedFails
    /\ objs < MaxObjs

(***************************************************************************)
(* Properties of the temporal render graph.                                *)
(***************************************************************************)
GetOrCreateOps == {"get_or_create_temporal_image", "get_or_create_temporal_buffer"}

\* The state of a key in a ledger map: its tag, or "absent".
TagOf(resources, k) == IF k \in DOMAIN resources THEN resources[k].tag ELSE "absent"

\* The step from `old` to `new` moves key k along an edge of the state machine
\* of the ledger, by the operation of that edge, or leaves its state alone.
ClaimedEdge(old, new, k) ==
    \/ TagOf(new, k) = TagOf(old, k)
    \/ /\ TagOf(old, k) = "absent"
       /\ TagOf(new, k) = "Imported"
       /\ last'.op \in GetOrCreateOps
       /\ created' = created + 1
    \/ /\ TagOf(old, k) = "Inert"
       /\ TagOf(new, k) = "Imported"
       /\ last'.op \in GetOrCreateOps
       /\ created' = created
    \/ /\ TagOf(old, k) = "Imported"
       /\ TagOf(new, k) = "Exported"
       /\ last'.op = "export_temporal"
    \/ /\ TagOf(old, k) = "Exported"
       /\ TagOf(new, k) = "Inert"
       /\ last'.op = "retire_temporal"

KindMap(state, op) ==
    IF op = "get_or_create_temporal_image" THEN state.images ELSE state.buffers
OtherKindMap(state, op) ==
    IF op = "get_or_create_temporal_image" THEN state.buffers ELSE state.images

\* C11: a get_or_create_temporal on a key that is Imported returns an error
\* that names the key, creates no resource, imports nothing into the graph,
\* does not panic, and leaves every entry of the ledger as it was.
C11_DoubleClaimIsError ==
    [][ /\ last'.op \in GetOrCreateOps
        /\ TagOf(KindMap(temporal_state, last'.op), last'.arg[1]) = "Imported"
        => /\ last'.ret.ok = FALSE
           /\ last'.ret.val = <<"Temporal resource already taken", last'.arg[1]>>
           /\ created' = created
           /\ rg' = rg
           /\ temporal_state' = temporal_state
           /\ panicked' = panicked
      ]_vars

\* A second claim of an image key failed while the key stays Imported and the
\* graph holds the one import of its resource.
C11_Witness ==
    /\ last.op = "get_or_create_temporal_image"
    /\ last.ret.ok = FALSE
    /\ last.ret.val[1] = "Temporal resource already taken"
    /\ temporal_state.images[last.arg[1]].tag = "Imported"
    /\ Len(rg.resources) = 1

\* export_temporal_resources on one map: an Imported entry becomes Exported
\* with the same resource and the handle of an export of its import handle;
\* an Inert entry stays.
ExportedAll(old, new, graph) ==
    /\ DOMAIN new = DOMAIN old
    /\ \A k \in DOMAIN old :
          /\ old[k].tag = "Imported"
             => /\ new[k].tag = "Exported"
                /\ new[k].resource = old[k].resource
                /\ new[k].handle[1] \in 1..Len(graph.exported)
                /\ graph.exported[new[k].handle[1]].handle = old[k].handle[1]
          /\ old[k].tag = "Inert" => new[k] = old[k]

\* retire_temporal_resources on one map: an Exported entry becomes Inert with
\* the same resource and the access type the retired graph reports for its
\* export handle; an Inert entry stays; nothing is left Imported or Exported.
RetiredAll(old, new, final) ==
    /\ DOMAIN new = DOMAIN old
    /\ \A k \in DOMAIN old :
          /\ old[k].tag = "Exported"
             => new[k] = Inert(old[k].resource, final[old[k].handle[1]])
          /\ old[k].tag = "Inert" => new[k] = old[k]
          /\ new[k].tag = "Inert"

\* C12: export_temporal turns every Imported entry into an Exported one that
\* holds its own export handle and leaves the Inert ones alone; retire_temporal,
\* the only operation on an exported ledger, turns every Exported entry into
\* Inert with exactly the access type the retired graph reports for that
\* handle, leaves the Inert ones alone, and leaves nothing Imported or
\* Exported.
C12_ExportRetireRoundTrip ==
    [][ /\ (last'.op = "export_temporal" /\ last'.ret = "Exported")
           => /\ ExportedAll(temporal_state.images, temporal_state'.images, rg')
              /\ ExportedAll(temporal_state.buffers, temporal_state'.buffers, rg')
        /\ last'.op = "retire_temporal"
           => /\ stage = "Exported"
              /\ last.op = "export_temporal"
              /\ last'.ret = "State"
              /\ RetiredAll(temporal_state.images, temporal_state'.images, last'.arg)
              /\ RetiredAll(temporal_state.buffers, temporal_state'.buffers, last'.arg)
      ]_vars

\* A frame with one export was retired with ComputeShaderWrite while a second
\* image key sat Inert through it.
C12_Witness ==
    /\ last.op = "retire_temporal"
    /\ last.ret = "State"
    /\ last.arg = <<"ComputeShaderWrite">>
    /\ Cardinality(DOMAIN temporal_state.images) = 2
    /\ \E k \in DOMAIN temporal_state.images :
          temporal_state.images[k].access_type = "ComputeShaderWrite"

\* Every key of `old` but k is in `new` as it was.
OthersKept(old, new, k) ==
    \A x \in DOMAIN old \ {k} : x \in DOMAIN new /\ new[x] = old[x]

\* The call imported `resource` with `access_type` as the next resource of
\* the graph, left the key Imported with the resource and the handle of the
\* import, returned the handle, and touched no other key, no entry of the
\* other resource kind and no export.
ImportedAs(resource, access_type) ==
    /\ rg'.resources = Append(rg.resources,
                              [resource |-> resource, access_type |-> access_type])
    /\ rg'.exported = rg.exported
    /\ last'.ret = [ok |-> TRUE, val |-> <<Len(rg'.resources)>>]
    /\ DOMAIN KindMap(temporal_state', last'.op)
          = DOMAIN KindMap(temporal_state, last'.op) \cup {last'.arg[1]}
    /\ KindMap(temporal_state', last'.op)[last'.arg[1]]
          = Imported(resource, Len(rg'.resources))
    /\ OthersKept(KindMap(temporal_state, last'.op),
                  KindMap(temporal_state', last'.op), last'.arg[1])
    /\ OtherKindMap(temporal_state', last'.op) = OtherKindMap(temporal_state, last'.op)
    /\ panicked' = panicked

\* The call created one resource of the description passed and imported it
\* with no prior access.
CreatedAndImported ==
    /\ created' = created + 1
    /\ \E resource \in {KindMap(temporal_state', last'.op)[last'.arg[1]].resource} :
          /\ resource.desc = last'.arg[2]
          /\ \A k \in DOMAIN temporal_state.images :
                temporal_state.images[k].resource # resource
          /\ \A k \in DOMAIN temporal_state.buffers :
                temporal_state.buffers[k].resource # resource
          /\ ImportedAs(resource, "Nothing")

\* C13 as claimed: every get_or_create_temporal on a key absent from the map
\* of its kind creates one resource through the device, imports it with
\* AccessType::Nothing, inserts the key as Imported with the resource and the
\* handle, and returns the handle.
C13_AbsentCreatesOne ==
    [][ /\ last'.op \in GetOrCreateOps
        /\ TagOf(KindMap(temporal_state, last'.op), last'.arg[1]) = "absent"
        => CreatedAndImported
      ]_vars

\* C13 amended: the same when the device creates the resource; when the
\* device fails, the call returns the error, no resource is created, nothing
\* is imported and no entry is inserted.
C13_AbsentCreatesOneUnlessDeviceFails ==
    [][ /\ last'.op \in GetOrCreateOps
        /\ TagOf(KindMap(temporal_state, last'.op), last'.arg[1]) = "absent"
        => \/ CreatedAndImported
           \/ /\ last'.ret.ok = FALSE
              /\ last'.ret.val[1] # "Temporal resource already taken"
              /\ created' = created
              /\ rg' = rg
              /\ temporal_state' = temporal_state
              /\ panicked' = panicked
      ]_vars

\* The device failed to create the image of a key while another image key,
\* claimed earlier in the frame, is Imported; the key stayed absent.
C13_Witness ==
    /\ last.op = "get_or_create_temporal_image"
    /\ last.ret.ok = FALSE
    /\ last.ret.val[1] = "Creating resource"
    /\ last.arg[1] \notin DOMAIN temporal_state.images
    /\ \E k \in DOMAIN temporal_state.images : temporal_state.images[k].tag = "Imported"
    /\ created = 1

\* C14: a get_or_create_temporal on an Inert key imports the resource of the
\* entry with the access type the entry records, leaves the key Imported with
\* the same resource, returns the handle, and creates no resource, whatever
\* description is passed.
C14_InertImportsRecorded ==
    [][ /\ last'.op \in GetOrCreateOps
        /\ TagOf(KindMap(temporal_state, last'.op), last'.arg[1]) = "Inert"
        => /\ created' = created
           /\ ImportedAs(KindMap(temporal_state, last'.op)[last'.arg[1]].resource,
                         KindMap(temporal_state, last'.op)[last'.arg[1]].access_type)
      ]_vars

\* An image key was claimed with a description other than the one of its
\* resource, and the resource went into the graph as ComputeShaderWrite, the
\* access type of a retire: the key was Inert.
C14_Witness ==
    /\ last.op = "get_or_create_temporal_image"
    /\ last.ret.ok
    /\ temporal_state.images[last.arg[1]].tag = "Imported"
    /\ temporal_state.images[last.arg[1]].resource.desc # last.arg[2]
    /\ rg.resources[last.ret.val[1]].resource = temporal_state.images[last.arg[1]].resource
    /\ rg.resources[last.ret.val[1]].access_type = "ComputeShaderWrite"

(***************************************************************************)
(* Properties of the ledger functions, over any ledgers (LedgerSpec).      *)
(***************************************************************************)
\* The entry reuse_from inserts for an entry of the old ledger.
Downgraded(state) ==
    IF state.tag = "Inert" THEN Inert(state.resource, state.access_type)
    ELSE Inert(state.resource, "Nothing")

\* Every key of `other` that `self_map` lacks is in `new` as the downgraded
\* entry of `other`.
CopiedIn(self_map, other, new) ==
    \A k \in DOMAIN other \ DOMAIN self_map :
        k \in DOMAIN new /\ new[k] = Downgraded(other[k])

\* C15: reuse_from inserts, for each key of the old ledger that the target
\* lacks, an Inert entry with the resource of the old entry: with the access
\* type Nothing when the old entry was Imported or Exported, with the access
\* type of the old entry when it was Inert.
C15_ReuseDowngrades ==
    [][ last'.op = "reuse_from"
        => /\ CopiedIn(temporal_state.images, old_state.images, temporal_state'.images)
           /\ CopiedIn(temporal_state.buffers, old_state.buffers, temporal_state'.buffers)
      ]_vars

\* After a reuse_from the target holds, Inert with Nothing, the resource the
\* old ledger held as Imported under k1 and, Inert with ComputeShaderWrite,
\* the resource it held as Inert under k2.
C15_Witness ==
    /\ last.op = "reuse_from"
    /\ DOMAIN temporal_state.images = {"k1", "k2"}
    /\ temporal_state.images["k1"] = Inert([id |-> 5, desc |-> "imgA"], "Nothing")
    /\ temporal_state.images["k2"] = Inert([id |-> 4, desc |-> "imgA"], "ComputeShaderWrite")

\* C16: reuse_from leaves every entry of the target as it was, whatever the
\* old ledger holds under the same key, and the keys of the result are the
\* keys of the target and of the old ledger together.
C16_ReuseNeverOverwrites ==
    [][ last'.op = "reuse_from"
        => /\ \A k \in DOMAIN temporal_state.images :
                 temporal_state'.images[k] = temporal_state.images[k]
           /\ \A k \in DOMAIN temporal_state.buffers :
                 temporal_state'.buffers[k] = temporal_state.buffers[k]
           /\ DOMAIN temporal_state'.images
                 = DOMAIN temporal_state.images \cup DOMAIN old_state.images
           /\ DOMAIN temporal_state'.buffers
                 = DOMAIN temporal_state.buffers \cup DOMAIN old_state.buffers
      ]_vars

\* After a reuse_from the target still holds its own Exported entry under k1
\* and its own buffer, next to an entry of the old ledger under k2.
C16_Witness ==
    /\ last.op = "reuse_from"
    /\ DOMAIN temporal_state.images = {"k1", "k2"}
    /\ temporal_state.images["k1"] = Exported([id |-> 3, desc |-> "imgA"], 1)
    /\ temporal_state.images["k2"].resource.id >= 4
    /\ DOMAIN temporal_state.buffers = {"k1"}
    /\ temporal_state.buffers["k1"].resource.id = 1

\* Every entry of the ledger is Inert.
AllInert(state) ==
    /\ \A k \in DOMAIN state.images : state.images[k].tag = "Inert"
    /\ \A k \in DOMAIN state.buffers : state.buffers[k].tag = "Inert"

\* C17: clone_assuming_inert on a ledger whose entries are all Inert returns
\* a ledger with the same keys and the same Inert entries (resource and access
\* type) and leaves the source as it was; on a ledger with an Imported or
\* Exported image or buffer entry it panics, and the caller gets no copy.
C17_CloneInertOnly ==
    [][ last'.op = "clone_assuming_inert"
        => /\ temporal_state' = temporal_state
           /\ IF AllInert(temporal_state)
              THEN /\ last'.ret = "State"
                   /\ old_state' = Held(temporal_state)
                   /\ panicked' = FALSE
              ELSE /\ last'.ret = "panic"
                   /\ old_state' = old_state
                   /\ panicked' = TRUE
      ]_vars

\* A ledger of two Inert images and an Inert buffer was cloned.
C17_Witness ==
    /\ last.op = "clone_assuming_inert"
    /\ last.ret = "State"
    /\ old_state.held
    /\ DOMAIN old_state.images = {"k1", "k2"}
    /\ DOMAIN old_state.buffers = {"k1"}
    /\ old_state.images = temporal_state.images
    /\ old_state.buffers = temporal_state.buffers
    /\ old_state.images["k1"].access_type # old_state.images["k2"].access_type

(***************************************************************************)
(* Properties of prepare_frame step by step (CompileSpec).                 *)
(***************************************************************************)
\* The step is the return of a prepare_frame that had spawned tasks, with
\* `ret`.
ReturnsFromPass(ret) ==
    /\ last.op = "prepare_frame"
    /\ last.ret = "pending"
    /\ last'.op = "prepare_frame"
    /\ last'.ret = ret

\* Some task of the pass has not finished.
SomeTaskRunning(p) == \E t \in DOMAIN p.tasks : p.tasks[t] = "running"

\* The step stores a pipeline object in an entry that had none.
StoresPipeline ==
    \/ \E h \in DOMAIN compute_entries :
          compute_entries[h].pipeline = None /\ compute_entries'[h].pipeline # None
    \/ \E h \in DOMAIN raster_entries :
          raster_entries[h].pipeline = None /\ raster_entries'[h].pipeline # None
    \/ \E h \in DOMAIN rt_entries :
          rt_entries[h].pipeline = None /\ rt_entries'[h].pipeline # None

\* C18: a step that stores a pipeline object, and a step in which the
\* construction of one panics, happens after the join has returned the
\* outputs of all tasks of the pass: no task of the pass is running before or
\* after the step, and every one has compiled.
C18_BuildAfterJoin ==
    [][ StoresPipeline \/ ReturnsFromPass("panic")
        => /\ pass.at = "building"
           /\ ~SomeTaskRunning(pass)
           /\ ~SomeTaskRunning(pass')
           /\ \A t \in DOMAIN pass.tasks : pass.tasks[t] \in {"ok", "built"}
      ]_vars

\* The build loop of a pass of two tasks has stored the pipeline of the
\* first and has the output of the second at hand.
C18_Witness ==
    /\ pass.at = "building"
    /\ \E t, u \in DOMAIN pass.tasks : pass.tasks[t] = "built" /\ pass.tasks[u] = "ok"
    /\ \E h \in DOMAIN compute_entries : compute_entries[h].pipeline # None

\* C19 as claimed: when prepare_frame returns the error of a compile, every
\* task of the pass has finished, with an output or an error, and none is
\* cancelled.
C19_ErrorAfterAllFinished ==
    [][ ReturnsFromPass("Err")
        => /\ \A t \in DOMAIN pass.tasks : pass.tasks[t] \in {"ok", "err"}
           /\ \A t \in DOMAIN pass'.tasks : pass'.tasks[t] \in {"ok", "err"}
      ]_vars

\* C19 amended: prepare_frame returns the error as soon as the join has met a
\* failed task; the tasks that are still running then are cancelled with the
\* drop of their handles, the finished ones keep their outcome, and no
\* pipeline object is stored in the pass.
C19_ErrorCancelsRunning ==
    [][ ReturnsFromPass("Err")
        => /\ \E t \in DOMAIN pass.tasks : pass.tasks[t] = "err"
           /\ DOMAIN pass'.tasks = DOMAIN pass.tasks
           /\ \A t \in DOMAIN pass.tasks :
                 pass'.tasks[t] = IF pass.tasks[t] = "running" THEN "cancelled"
                                  ELSE pass.tasks[t]
           /\ \A t \in DOMAIN pass'.tasks : pass'.tasks[t] \in {"ok", "err", "cancelled"}
           /\ pass'.at = "idle"
           /\ compute_entries' = compute_entries
           /\ raster_entries' = raster_entries
           /\ rt_entries' = rt_entries
           /\ objs' = objs
      ]_vars

\* prepare_frame has returned the error of one task while the other task of
\* the pass had not finished: that one is cancelled.
C19_Witness ==
    /\ last.op = "prepare_frame"
    /\ last.ret = "Err"
    /\ \E t, u \in DOMAIN pass.tasks : pass.tasks[t] = "err" /\ pass.tasks[u] = "cancelled"

(***************************************************************************)
(* Properties of the workers of the compilation units (WorkerSpec).        *)
(***************************************************************************)
\* The stages of a raster unit in the order the worker lists them.
RasterStages(shaders) ==
    <<[desc |-> shaders.vertex, profile |-> "vs"],
      [desc |-> shaders.pixel, profile |-> "ps"]>>

\* The stages of one shader group: the ray-gen or miss shader, or the
\* closest-hit and then the intersection shader a hit group has.
GroupStages(g) ==
    IF g.tag \in {"RayGen", "Miss"} THEN <<[desc |-> g.g, profile |-> "lib"]>>
    ELSE (IF g.closest_hit = NoStage THEN <<>>
          ELSE <<[desc |-> g.closest_hit, profile |-> "lib"]>>)
         \o (IF g.intersection = NoStage THEN <<>>
             ELSE <<[desc |-> g.intersection, profile |-> "lib"]>>)

\* The stages of a ray-tracing unit in the order the worker lists them.
RECURSIVE RtStages(_)
RtStages(groups) ==
    IF groups = <<>> THEN <<>> ELSE GroupStages(Head(groups)) \o RtStages(Tail(groups))

\* The place of the first stage that does not compile, or 0.
FirstFailing(stages) ==
    IF \E i \in 1..Len(stages) : ~srcOk[stages[i].desc.source.name]
    THEN CHOOSE i \in 1..Len(stages) :
            /\ ~srcOk[stages[i].desc.source.name]
            /\ \A j \in 1..(i - 1) : srcOk[stages[j].desc.source.name]
    ELSE 0

\* The run gave a result only if every stage compiles; a failure carries no
\* bundle; the run compiled the stages up to the first failing one and none
\* after it.
AllOrNothing(stages, out) ==
    /\ out.ret.ok = (FirstFailing(stages) = 0)
    /\ ~out.ret.ok => out.ret = Err
    /\ Len(out.compiled) = IF FirstFailing(stages) = 0 THEN Len(stages)
                           ELSE FirstFailing(stages)
    /\ \A i \in 1..Len(out.compiled) :
          out.compiled[i] = CompileTask(stages[i].desc.source, stages[i].profile)

\* C21: a run of the raster worker or of the ray-tracing worker yields a
\* result only if every stage compiles, and then the result holds the code of
\* every stage; when a stage fails the result is the error alone, and no
\* stage listed after the failing one is compiled by the run.
C21_StagesAllOrNothing ==
    /\ last.op = "raster_run"
       => /\ AllOrNothing(RasterStages(last.arg), last.ret)
          /\ last.ret.ret = RasterRun(last.arg)
          /\ last.ret.ret.ok
             => /\ last.ret.ret.val[1].vertex.desc = last.arg.vertex
                /\ last.ret.ret.val[1].pixel.desc = last.arg.pixel
    /\ last.op = "rt_run"
       => /\ AllOrNothing(RtStages(last.arg), last.ret)
          /\ last.ret.ret = RtRun(last.arg)
          /\ last.ret.ret.ok => Len(last.ret.ret.val[1]) = Len(last.arg)

\* The ray-tracing worker ran on two groups; the closest-hit shader of the
\* first compiled, its intersection shader failed, and the second group was
\* not compiled.
C21_Witness ==
    /\ last.op = "rt_run"
    /\ Len(last.arg) = 2
    /\ last.arg[1].tag = "HitGroup"
    /\ last.arg[2].tag = "Miss"
    /\ last.ret.ret = Err
    /\ Len(last.ret.compiled) = 2
    /\ srcOk[last.ret.compiled[1].name]
    /\ ~srcOk[last.ret.compiled[2].name]

(***************************************************************************)
(* Properties of the stage operations on any ledger (AnyStageSpec).        *)
(***************************************************************************)
\* Some entry of the ledger is in the state `tag`.
SomeEntry(state, tag) ==
    \/ \E k \in DOMAIN state.images : state.images[k].tag = tag
    \/ \E k \in DOMAIN state.buffers : state.buffers[k].tag = tag

\* The entries in the state `tag` are what they were.
EntriesKept(tag) ==
    /\ \A k \in DOMAIN temporal_state.images :
          temporal_state.images[k].tag = tag
          => /\ ContainsKey(temporal_state'.images, k)
             /\ temporal_state'.images[k] = temporal_state.images[k]
    /\ \A k \in DOMAIN temporal_state.buffers :
          temporal_state.buffers[k].tag = tag
          => /\ ContainsKey(temporal_state'.buffers, k)
             /\ temporal_state'.buffers[k] = temporal_state.buffers[k]

\* The call panicked: it returned nothing, and the stage is what it was.
Aborts(ret) ==
    /\ panicked'
    /\ last'.ret = ret
    /\ stage' = stage

\* C22: retire_temporal on a ledger with an Imported entry, export_temporal
\* on a ledger with an Exported entry and get_or_create_temporal on a key
\* whose entry is Exported each panic: none returns a value, Ok or Err, and
\* the entry the call met is left as it was.
C22_ProtocolViolationsPanic ==
    [][/\ (last'.op = "retire_temporal" /\ SomeEntry(temporal_state, "Imported"))
          => Aborts("panic") /\ EntriesKept("Imported")
       /\ (last'.op = "export_temporal" /\ SomeEntry(temporal_state, "Exported"))
          => Aborts("panic") /\ EntriesKept("Exported")
       /\ (/\ last'.op \in GetOrCreateOps
           /\ ContainsKey(KindMap(temporal_state, last'.op), last'.arg[1])
           /\ KindMap(temporal_state, last'.op)[last'.arg[1]].tag = "Exported")
          => Aborts(None) /\ EntriesKept("Exported")]_vars

\* export_temporal has met an Exported entry and panicked.
C22_Witness ==
    /\ last.op = "export_temporal"
    /\ last.ret = "panic"
    /\ panicked
    /\ SomeEntry(temporal_state, "Exported")

(***************************************************************************)
(* Properties of the public operations from a default ledger (PublicSpec). *)
(***************************************************************************)
\* C23: under new, get_or_create_temporal, export_temporal and
\* retire_temporal from a default ledger no call panics: a ledger that can be
\* passed to new has only Inert entries, a ledger export_temporal can be
\* called on has no Exported entry, and a ledger retire_temporal can be
\* called on has no Imported entry.
C23_PublicOpsNeverAbort ==
    /\ ~panicked
    /\ stage = "State" => AllInert(temporal_state)
    /\ stage = "Graph" => ~SomeEntry(temporal_state, "Exported")
    /\ stage = "Exported" => ~SomeEntry(temporal_state, "Imported")

\* A second frame was exported: a key claimed in it is Exported next to a key
\* the frame before left Inert.
C23_Witness ==
    /\ last.op = "export_temporal"
    /\ stage = "Exported"
    /\ SomeEntry(temporal_state, "Exported")
    /\ SomeEntry(temporal_state, "Inert")

(***************************************************************************)
(* The resource bound to a key (TemporalSpec).                             *)
(***************************************************************************)
\* Every key of `old` is a key of `new` with the same resource.
ResourcesKept(old, new) ==
    \A k \in DOMAIN old : ContainsKey(new, k) /\ new[k].resource = old[k].resource

\* The step is a get_or_create_temporal that made the device create a
\* resource.
DeviceCreates == created' = created + 1

\* Each key of `merged` holds the resource the target had for it, or else the
\* one the other ledger had.
MergedFrom(self_map, other, merged) ==
    /\ DOMAIN merged = DOMAIN self_map \cup DOMAIN other
    /\ \A k \in DOMAIN merged :
          merged[k].resource = IF ContainsKey(self_map, k) THEN self_map[k].resource
                               ELSE other[k].resource

CreationFailed(op, ret) ==
    /\ op \in GetOrCreateOps
    /\ ret.ok = FALSE
    /\ ret.val[1] = "Creating resource"

\* C25: a get_or_create_temporal in which the device fails to create the
\* resource returns the error, imports nothing, creates nothing and leaves
\* the key absent and the ledger as it was; the next get_or_create_temporal
\* on that key asks the device again, and either creates and imports the
\* resource or fails in the same way: it never reports the key as taken.
C25_FailedCreationLeavesKeyAbsent ==
    [][ /\ CreationFailed(last'.op, last'.ret)
           => /\ ~ContainsKey(KindMap(temporal_state, last'.op), last'.arg[1])
              /\ ~ContainsKey(KindMap(temporal_state', last'.op), last'.arg[1])
              /\ temporal_state' = temporal_state
              /\ rg' = rg
              /\ created' = created
              /\ ~panicked'
        /\ (/\ CreationFailed(last.op, last.ret)
            /\ last'.op = last.op
            /\ last'.arg[1] = last.arg[1])
           => \/ CreatedAndImported
              \/ CreationFailed(last'.op, last'.ret)
      ]_vars

\* The device failed to create the buffer of a key in a graph that has
\* imported nothing: the key is absent and the graph is empty.
C25_Witness ==
    /\ CreationFailed(last.op, last.ret)
    /\ last.op = "get_or_create_temporal_buffer"
    /\ ~ContainsKey(temporal_state.buffers, last.arg[1])
    /\ rg.resources = <<>>
    /\ created < MaxResources

(***************************************************************************)
(* The index and the entry table of each pipeline kind (Spec).             *)
(***************************************************************************)
\* The index and the table have the same size, the index gives distinct keys
\* distinct handles, the handles of the index are the handles of the table,
\* and these are 0 .. n-1 for the n entries.
IndexMatchesTable(index, entries) ==
    /\ MapLen(index) = MapLen(entries)
    /\ \A k1, k2 \in DOMAIN index : index[k1] = index[k2] => k1 = k2
    /\ {index[k] : k \in DOMAIN index} = DOMAIN entries
    /\ DOMAIN entries = 0..(MapLen(entries) - 1)

\* C26: in every reachable state, for the compute, the raster and the
\* ray-tracing kind, the deduplication index and the entry table have the
\* same size, the index is injective, and the handles of the index are the
\* handles of the table, which are exactly 0 .. n-1 for n entries.
C26_IndexAndTableAgree ==
    /\ IndexMatchesTable(compute_shader_to_handle, compute_entries)
    /\ IndexMatchesTable(raster_shaders_to_handle, raster_entries)
    /\ IndexMatchesTable(rt_shaders_to_handle, rt_entries)

\* Two compute pipelines are registered and the second has been built.
C26_Witness ==
    /\ MapLen(compute_shader_to_handle) = 2
    /\ DOMAIN compute_entries = {0, 1}
    /\ compute_entries[1].pipeline # None

====
